---- MODULE Spec2Model ----
(***************************************************************************)
(* Deliveraite: the document generator view (src/unnamed/part_002) and its *)
(* JSON utilities (src/web/src/App.vue, imported as '@/utils/jsonUtils').  *)
(*                                                                         *)
(* A JavaScript string is a sequence of one-character strings.  A CJK      *)
(* character, which the module's lexical syntax does not admit, is written *)
(* as one element holding its pinyin ("zong" for U+603B; a digit tells     *)
(* homophones apart): it is one character of no character class but "any"  *)
(* and "not a line terminator".                                            *)
(* The backquote U+0060 is written "bq" for the same reason.               *)
(***************************************************************************)
EXTENDS Integers, Sequences, FiniteSets, TLC

VARIABLES
  documentData,      \* part_002:259  the outline, a sequence of sections
  activeSectionId,   \* part_002:260  the selected section's id, or Null
  isGenerating,      \* part_002:532
  now,               \* what Date.now() returns
  chat,              \* part_002:1532-1546  sendMessage's assistantMsg and fullText
  rep,               \* a string and the results of repairing it again and again
  parseIn,           \* smartParseJson's argument (text, fence around it) and the engine
  callStack,         \* the smartParseJson activations, the running one last
  parseOut,          \* what the outermost smartParseJson returned or threw
  nested,            \* parseNestedOutline's argument
  flat,              \* parseNestedOutline's result, once it has run
  generation,        \* part_002:545-856  where generateOutline stands, and its aiResponse
  handling,          \* part_002:900-1399  where handleAction stands, and its section
  offsetHeight,      \* part_002:2158  the height of the content view, in half pixels
  pageCount,         \* part_002:2050
  extraction,        \* ProjectDetail.vue:288-334  the processDeliverableExtraction calls
  reader,            \* part_002:1003-1104, 1556-1763  a read loop: its buffer and fullText
  writingSectionId,  \* part_002:533  the section shown as being written, or Null
  kb                 \* ProjectDetail.vue:170-286, 336-353  the files, the fetchKBFiles calls, the timer

vars == <<documentData, activeSectionId, isGenerating, now, chat,
          rep, parseIn, callStack, parseOut, nested, flat,
          generation, handling, offsetHeight, pageCount, extraction, reader,
          writingSectionId, kb>>
OtherOps ==
  <<generation, handling, offsetHeight, pageCount, extraction, reader, writingSectionId, kb>>

Null == <<"null">>

-----------------------------------------------------------------------------
(* Characters *)

Digits == {"0", "1", "2", "3", "4", "5", "6", "7", "8", "9"}
LowerAZ == {"a", "b", "c", "d", "e", "f", "g", "h", "i", "j", "k", "l", "m",
            "n", "o", "p", "q", "r", "s", "t", "u", "v", "w", "x", "y", "z"}
UpperAZ == {"A", "B", "C", "D", "E", "F", "G", "H", "I", "J", "K", "L", "M",
            "N", "O", "P", "Q", "R", "S", "T", "U", "V", "W", "X", "Y", "Z"}
\* \s of a JavaScript regular expression, and what String.prototype.trim strips
WhiteSpace == {" ", "\n", "\t", "\r"}
\* what . of a JavaScript regular expression does not match
LineTerminators == {"\n", "\r"}
\* [a-zA-Z0-9_]
WordChars == LowerAZ \cup UpperAZ \cup Digits \cup {"_"}

\* String.prototype.toLowerCase on one character
LowerChar(c) ==
  IF c \in UpperAZ
  THEN CHOOSE l \in LowerAZ :
         \E i \in 1..26 :
           /\ <<"a","b","c","d","e","f","g","h","i","j","k","l","m","n","o","p","q","r","s","t","u","v","w","x","y","z">>[i] = l
           /\ <<"A","B","C","D","E","F","G","H","I","J","K","L","M","N","O","P","Q","R","S","T","U","V","W","X","Y","Z">>[i] = c
  ELSE c

toLowerCase(s) == [i \in 1..Len(s) |-> LowerChar(s[i])]

RECURSIVE trimStart(_)
trimStart(s) ==
  IF Len(s) > 0 /\ s[1] \in WhiteSpace THEN trimStart(Tail(s)) ELSE s

RECURSIVE trimEnd(_)
trimEnd(s) ==
  IF Len(s) > 0 /\ s[Len(s)] \in WhiteSpace
  THEN trimEnd(SubSeq(s, 1, Len(s) - 1)) ELSE s

\* String.prototype.trim
trim(s) == trimEnd(trimStart(s))

\* String.prototype.substring(a, b) with 0-based a and exclusive b
substring(s, a, b) == SubSeq(s, a + 1, b)

\* String.prototype.startsWith / endsWith / includes / indexOf (0-based, -1)
startsWith(s, p) == Len(p) <= Len(s) /\ SubSeq(s, 1, Len(p)) = p
endsWith(s, p) == Len(p) <= Len(s) /\ SubSeq(s, Len(s) - Len(p) + 1, Len(s)) = p
includes(s, p) == \E i \in 1..(Len(s) - Len(p) + 1) : SubSeq(s, i, i + Len(p) - 1) = p

RECURSIVE Flatten(_)
Flatten(ss) == IF Len(ss) = 0 THEN <<>> ELSE Head(ss) \o Flatten(Tail(ss))

-----------------------------------------------------------------------------
(* JavaScript regular expressions: a backtracking matcher over a syntax    *)
(* tree, with the priorities of ECMAScript (alternatives left to right,    *)
(* greedy quantifiers longest first, lazy ones shortest first, an          *)
(* iteration that consumes nothing is not repeated).                       *)

ReNode(t, s, k, n) == [t |-> t, s |-> s, k |-> k, n |-> n]
In(s) == ReNode("set", s, <<>>, 0)           \* [...], a literal character
NotIn(s) == ReNode("nset", s, <<>>, 0)       \* [^...]
AnyChar == NotIn({})                           \* [\s\S]
Dot == NotIn(LineTerminators)                \* .
Ws == In(WhiteSpace)                         \* \s
Cat(k) == ReNode("cat", {}, k, 0)
Alt(k) == ReNode("alt", {}, k, 0)            \* a|b|c
Eps == Cat(<<>>)
Star(x) == ReNode("star", {}, <<x>>, 0)      \* x*
Lazy(x) == ReNode("lazy", {}, <<x>>, 0)      \* x*?
Plus(x) == Cat(<<x, Star(x)>>)               \* x+
LazyPlus(x) == Cat(<<x, Lazy(x)>>)           \* x+?
Opt(x) == Alt(<<x, Eps>>)                    \* x?
LazyOpt(x) == Alt(<<Eps, x>>)                \* x??
Grp(n, x) == ReNode("grp", {}, <<x>>, n)     \* capture group n
Bol == ReNode("bol", {}, <<>>, 0)            \* ^ without the m flag
Eol == ReNode("eol", {}, <<>>, 0)            \* $ without the m flag
BolM == ReNode("bolm", {}, <<>>, 0)          \* ^ with the m flag
EolM == ReNode("eolm", {}, <<>>, 0)          \* $ with the m flag
Lit(str) == Cat([i \in 1..Len(str) |-> In({str[i]})])
\* a literal under the i flag
LitI(str) == Cat([i \in 1..Len(str) |->
                   In({c \in LowerAZ \cup UpperAZ \cup {str[i]} :
                         LowerChar(c) = LowerChar(str[i])})])

MaxGroups == 3
NoCaps == [g \in 1..MaxGroups |-> <<0, 0>>]  \* <<0, 0>>: the group did not take part
ReFail == [ok |-> FALSE, e |-> 0, caps |-> NoCaps]

\* does the character class x match c?
ReClass(x, c) == IF x.t = "set" THEN c \in x.s ELSE c \notin x.s
\* how many characters from pos on the character class x matches in a row
ReRun(x, pos, text) ==
  CHOOSE n \in 0..(Len(text) + 1 - pos) :
    /\ \A j \in pos..(pos + n - 1) : ReClass(x, text[j])
    /\ (pos + n > Len(text) \/ ~ReClass(x, text[pos + n]))

\* const v = value; ... : the value of an expression under a name
Bind(v, F(_)) == CHOOSE r \in {F(x) : x \in {v}} : TRUE

RECURSIVE ReM(_, _, _, _)
ReM(todo, pos, caps, text) ==
  IF Len(todo) = 0 THEN [ok |-> TRUE, e |-> pos, caps |-> caps]
  ELSE
    LET h == Head(todo)
        rest == Tail(todo)
    IN CASE h.t = "set" ->
              IF pos <= Len(text) /\ text[pos] \in h.s
              THEN ReM(rest, pos + 1, caps, text) ELSE ReFail
         [] h.t = "nset" ->
              IF pos <= Len(text) /\ text[pos] \notin h.s
              THEN ReM(rest, pos + 1, caps, text) ELSE ReFail
         [] h.t = "cat" -> ReM(h.k \o rest, pos, caps, text)
         [] h.t = "alt" ->
              IF Len(h.k) = 0 THEN ReFail
              ELSE Bind(ReM(<<h.k[1]>> \o rest, pos, caps, text), LAMBDA r :
                     IF r.ok THEN r
                     ELSE ReM(<<Alt(Tail(h.k))>> \o rest, pos, caps, text))
         [] h.t = "star" ->
              IF h.k[1].t \in {"set", "nset"}
              THEN \* x* of one character class: the longest run that lets the rest match
                   Bind({n \in 0..ReRun(h.k[1], pos, text) : ReM(rest, pos + n, caps, text).ok},
                        LAMBDA fit :
                          IF fit = {} THEN ReFail
                          ELSE ReM(rest, pos + (CHOOSE n \in fit : \A m \in fit : m <= n),
                                   caps, text))
              ELSE Bind(ReM(<<h.k[1], ReNode("chk", {}, <<h>>, pos)>> \o rest,
                            pos, caps, text),
                        LAMBDA r : IF r.ok THEN r ELSE ReM(rest, pos, caps, text))
         [] h.t = "lazy" ->
              IF h.k[1].t \in {"set", "nset"}
              THEN \* x*? of one character class: the shortest run that lets the rest match
                   Bind({n \in 0..ReRun(h.k[1], pos, text) : ReM(rest, pos + n, caps, text).ok},
                        LAMBDA fit :
                          IF fit = {} THEN ReFail
                          ELSE ReM(rest, pos + (CHOOSE n \in fit : \A m \in fit : n <= m),
                                   caps, text))
              ELSE Bind(ReM(rest, pos, caps, text), LAMBDA r :
                     IF r.ok THEN r
                     ELSE ReM(<<h.k[1], ReNode("chk", {}, <<h>>, pos)>> \o rest,
                              pos, caps, text))
         [] h.t = "chk" ->
              IF pos = h.n THEN ReFail ELSE ReM(<<h.k[1]>> \o rest, pos, caps, text)
         [] h.t = "grp" ->
              ReM(<<ReNode("open", {}, <<>>, h.n), h.k[1], ReNode("close", {}, <<>>, h.n)>> \o rest,
                  pos, caps, text)
         [] h.t = "open" -> ReM(rest, pos, [caps EXCEPT ![h.n] = <<pos, 0>>], text)
         [] h.t = "close" -> ReM(rest, pos, [caps EXCEPT ![h.n] = <<caps[h.n][1], pos>>], text)
         [] h.t = "bol" -> IF pos = 1 THEN ReM(rest, pos, caps, text) ELSE ReFail
         [] h.t = "eol" -> IF pos = Len(text) + 1 THEN ReM(rest, pos, caps, text) ELSE ReFail
         [] h.t = "bolm" ->
              IF pos = 1 \/ text[pos - 1] \in LineTerminators
              THEN ReM(rest, pos, caps, text) ELSE ReFail
         [] h.t = "eolm" ->
              IF pos = Len(text) + 1 \/ text[pos] \in LineTerminators
              THEN ReM(rest, pos, caps, text) ELSE ReFail

NoMatch == [ok |-> FALSE, s |-> 0, e |-> 0, caps |-> NoCaps]

\* RegExp.prototype.exec from position from (1-based): the leftmost match.
\* s is the 1-based start, e the 1-based position after the match.
ReExec(re, text, from) ==
  LET Make(p, r) == [ok |-> TRUE, s |-> p, e |-> r.e, caps |-> r.caps]
      At(p) == Make(p, ReM(<<re>>, p, NoCaps, text))
      Leftmost(starts) ==
        IF starts = {} THEN NoMatch
        ELSE At(CHOOSE p \in starts : \A q \in starts : p <= q)
  IN Leftmost({p \in from..(Len(text) + 1) : ReM(<<re>>, p, NoCaps, text).ok})

\* String.prototype.match without the g flag
ReMatch(re, text) == ReExec(re, text, 1)
\* RegExp.prototype.test
ReTest(re, text) == ReMatch(re, text).ok
\* match[n], "" when the group did not take part
ReGroup(m, text, n) ==
  IF m.caps[n][1] = 0 THEN <<>> ELSE SubSeq(text, m.caps[n][1], m.caps[n][2] - 1)
\* match[0]
ReWhole(m, text) == SubSeq(text, m.s, m.e - 1)

\* A replacement pattern: a sequence of [g, c], g > 0 for $g, else the text c.
Ref(g) == [g |-> g, c |-> <<>>]
Txt(c) == [g |-> 0, c |-> c]
ReExpand(tmpl, m, text) ==
  Flatten([i \in 1..Len(tmpl) |->
            IF tmpl[i].g > 0 THEN ReGroup(m, text, tmpl[i].g) ELSE tmpl[i].c])

\* String.prototype.replace with a g-flagged expression
RECURSIVE ReReplaceFrom(_, _, _, _)
ReReplaceFrom(re, text, tmpl, from) ==
  LET With(m) ==
        IF ~m.ok THEN SubSeq(text, from, Len(text))
        ELSE SubSeq(text, from, m.s - 1) \o ReExpand(tmpl, m, text) \o
             (IF m.e > m.s THEN ReReplaceFrom(re, text, tmpl, m.e)
              ELSE IF m.s <= Len(text)
                   THEN <<text[m.s]>> \o ReReplaceFrom(re, text, tmpl, m.s + 1)
                   ELSE <<>>)
  IN With(ReExec(re, text, from))
ReReplaceAll(re, text, tmpl) == ReReplaceFrom(re, text, tmpl, 1)

\* String.prototype.replace with an expression without the g flag
ReReplaceFirst(re, text, tmpl) ==
  LET With(m) ==
        IF ~m.ok THEN text
        ELSE SubSeq(text, 1, m.s - 1) \o ReExpand(tmpl, m, text) \o SubSeq(text, m.e, Len(text))
  IN With(ReMatch(re, text))

\* String.prototype.matchAll: the successive matches, in order
RECURSIVE ReMatchAllFrom(_, _, _)
ReMatchAllFrom(re, text, from) ==
  LET With(m) ==
        IF ~m.ok THEN <<>>
        ELSE <<m>> \o ReMatchAllFrom(re, text, IF m.e > m.s THEN m.e ELSE m.s + 1)
  IN With(ReExec(re, text, from))
ReMatchAll(re, text) == ReMatchAllFrom(re, text, 1)

-----------------------------------------------------------------------------
(* JSON.parse (ECMA-404 grammar).  A value is [t, v, k]: t the kind, v the  *)
(* text of a string, number or literal, k the elements of an array or the  *)
(* <<key, value>> entries of an object (a repeated key keeps its first     *)
(* position and its last value).  A failure carries the 0-based position   *)
(* of the offending character and what was found there.                    *)

JsonWs == {" ", "\n", "\t", "\r"}
JVal(t, v, k) == [t |-> t, v |-> v, k |-> k]
JOk(v, nx) == [ok |-> TRUE, v |-> v, nx |-> nx, pos |-> 0, kind |-> "none"]
JErr(i, kind) == [ok |-> FALSE, v |-> JVal("none", <<>>, <<>>), nx |-> 0, pos |-> i - 1, kind |-> kind]

RECURSIVE JSkipWs(_, _)
JSkipWs(s, i) == IF i <= Len(s) /\ s[i] \in JsonWs THEN JSkipWs(s, i + 1) ELSE i

\* the failure at position i (1-based): the end of the input or a character
JUnexpected(s, i) == IF i > Len(s) THEN JErr(i, "end") ELSE JErr(i, "token")

RECURSIVE JDigits(_, _)
JDigits(s, i) == IF i <= Len(s) /\ s[i] \in Digits THEN JDigits(s, i + 1) ELSE i

JNumber(s, i) ==
  LET Result(a, b, c, e0, d) ==
        IF b = a THEN JUnexpected(s, a)
        ELSE IF c = b + 1 THEN JUnexpected(s, c)
        ELSE IF e0 > c /\ d = e0 THEN JUnexpected(s, e0)
        ELSE JOk(JVal("num", SubSeq(s, i, d - 1), <<>>), d)
      ExpDigits(a, b, c, e0) == Result(a, b, c, e0, IF e0 > c THEN JDigits(s, e0) ELSE c)
      Exp(a, b, c) ==
        ExpDigits(a, b, c,
                  IF c <= Len(s) /\ s[c] \in {"e", "E"}
                  THEN (IF c + 1 <= Len(s) /\ s[c + 1] \in {"+", "-"} THEN c + 2 ELSE c + 1)
                  ELSE c)
      Frac(a, b) == Exp(a, b, IF b <= Len(s) /\ s[b] = "." THEN JDigits(s, b + 1) ELSE b)
      IntPart(a) == Frac(a, IF a <= Len(s) /\ s[a] = "0" THEN a + 1 ELSE JDigits(s, a))
  IN IntPart(IF s[i] = "-" THEN i + 1 ELSE i)

JEscapes == {"\"", "\\", "/", "b", "f", "n", "r", "t"}
JUnescape(c) ==
  CASE c = "n" -> "\n" [] c = "t" -> "\t" [] c = "r" -> "\r" [] c = "f" -> "\f"
    [] c = "b" -> "\\b" [] OTHER -> c

\* the characters of a string literal from position i, after its opening quote
RECURSIVE JStringBody(_, _, _)
JStringBody(s, i, acc) ==
  IF i > Len(s) THEN JErr(i, "unterminated")
  ELSE IF s[i] = "\"" THEN JOk(JVal("str", acc, <<>>), i + 1)
  ELSE IF s[i] \in {"\n", "\t", "\r"} THEN JErr(i, "control")
  ELSE IF s[i] = "\\" THEN
    IF i + 1 > Len(s) THEN JErr(i + 1, "unterminated")
    ELSE IF s[i + 1] \in JEscapes
         THEN JStringBody(s, i + 2, Append(acc, JUnescape(s[i + 1])))
         ELSE JErr(i + 1, "escape")
  ELSE JStringBody(s, i + 1, Append(acc, s[i]))

JLiteral(s, i, word) ==
  LET Matched(n) ==
        IF n = Len(word) THEN JOk(JVal("lit", word, <<>>), i + n)
        ELSE JUnexpected(s, i + n)
  IN Matched(CHOOSE n \in 0..Len(word) :
               /\ \A j \in 1..n : i + j - 1 <= Len(s) /\ s[i + j - 1] = word[j]
               /\ (n = Len(word) \/ i + n > Len(s) \/ s[i + n] # word[n + 1]))

\* object entries with key k set to v, as property assignment does
JPut(entries, k, v) ==
  IF \E j \in 1..Len(entries) : entries[j][1] = k
  THEN [j \in 1..Len(entries) |-> IF entries[j][1] = k THEN <<k, v>> ELSE entries[j]]
  ELSE Append(entries, <<k, v>>)

RECURSIVE JValue(_, _)
RECURSIVE JArrayRest(_, _, _)
RECURSIVE JObjectRest(_, _, _)

JValue(s, i0) ==
  LET Array(j) ==
        IF j <= Len(s) /\ s[j] = "]" THEN JOk(JVal("arr", <<>>, <<>>), j + 1)
        ELSE JArrayRest(s, j, <<>>)
      Object(j) ==
        IF j <= Len(s) /\ s[j] = "}" THEN JOk(JVal("obj", <<>>, <<>>), j + 1)
        ELSE JObjectRest(s, j, <<>>)
      At(i) ==
        IF i > Len(s) THEN JErr(i, "end")
        ELSE CASE s[i] = "\"" -> JStringBody(s, i + 1, <<>>)
               [] s[i] = "[" -> Array(JSkipWs(s, i + 1))
               [] s[i] = "{" -> Object(JSkipWs(s, i + 1))
               [] s[i] \in Digits \cup {"-"} -> JNumber(s, i)
               [] s[i] = "t" -> JLiteral(s, i, <<"t", "r", "u", "e">>)
               [] s[i] = "f" -> JLiteral(s, i, <<"f", "a", "l", "s", "e">>)
               [] s[i] = "n" -> JLiteral(s, i, <<"n", "u", "l", "l">>)
               [] OTHER -> JErr(i, "token")
  IN At(JSkipWs(s, i0))

\* an element at i, then "," and more elements or "]"
JArrayRest(s, i, acc) ==
  LET After(j, acc2) ==
        IF j > Len(s) THEN JErr(j, "end")
        ELSE IF s[j] = "]" THEN JOk(JVal("arr", <<>>, acc2), j + 1)
        ELSE IF s[j] = "," THEN JArrayRest(s, j + 1, acc2)
        ELSE JErr(j, "token")
      Element(r) == IF ~r.ok THEN r ELSE After(JSkipWs(s, r.nx), Append(acc, r.v))
  IN Element(JValue(s, i))

\* a "key": value member at i, then "," and more members or "}"
JObjectRest(s, i0, acc) ==
  LET After(j, acc2) ==
        IF j > Len(s) THEN JErr(j, "end")
        ELSE IF s[j] = "}" THEN JOk(JVal("obj", <<>>, acc2), j + 1)
        ELSE IF s[j] = "," THEN JObjectRest(s, j + 1, acc2)
        ELSE JErr(j, "token")
      Member(key, r) ==
        IF ~r.ok THEN r ELSE After(JSkipWs(s, r.nx), JPut(acc, key.v.v, r.v))
      Colon(key, c) ==
        IF c > Len(s) THEN JErr(c, "end")
        ELSE IF s[c] # ":" THEN JErr(c, "token")
        ELSE Member(key, JValue(s, c + 1))
      Key(key) == IF ~key.ok THEN key ELSE Colon(key, JSkipWs(s, key.nx))
      At(i) ==
        IF i > Len(s) THEN JErr(i, "end")
        ELSE IF s[i] # "\"" THEN JErr(i, "token")
        ELSE Key(JStringBody(s, i + 1, <<>>))
  IN At(JSkipWs(s, i0))

\* JSON.parse(s): one value, then nothing but white space
JSONparse(s) ==
  LET End(r, j) == IF j > Len(s) THEN r ELSE JErr(j, "after")
      Value(r) == IF ~r.ok THEN r ELSE End(r, JSkipWs(s, r.nx))
  IN Value(JValue(s, 1))

-----------------------------------------------------------------------------
(* src/web/src/App.vue: repairTruncatedJson *)

BackTicks == <<"bq", "bq", "bq">>   \* three backquotes
Quote == "\""
BackSlash == "\\"

ReJsonFenceStart == Cat(<<Bol, Lit(BackTicks \o <<"j", "s", "o", "n">>), Star(Ws)>>)  \* /^(3 bq)json\s*/
ReFenceEnd == Cat(<<Lit(BackTicks), Eol>>)                                        \* /(3 bq)$/
ReTrailingComma == Cat(<<In({","}), Star(Ws), Grp(1, In({"}", "]"}))>>)           \* /,\s*([}\]])/g
ReFinalComma == Cat(<<In({","}), Star(Ws), Eol>>)                                 \* /,\s*$/
ReBraceBrace == Cat(<<In({"}"}), Star(Ws), In({"{"})>>)                           \* /}\s*{/g
ReBracketBracket == Cat(<<In({"]"}), Star(Ws), In({"["})>>)                       \* /]\s*\[/g
\* the same for the first key of an object only: /([{]\s*)([a-zA-Z0-9_]+)(\s*:)/g
ReBareKeyAfterBrace == Cat(<<Grp(1, Cat(<<In({"{"}), Star(Ws)>>)),
                             Grp(2, Plus(In(WordChars))),
                             Grp(3, Cat(<<Star(Ws), In({":"})>>))>>)

\* /([{,]\s*)([a-zA-Z0-9_]+)(\s*:)/g
ReBareKey == Cat(<<Grp(1, Cat(<<In({"{", ","}), Star(Ws)>>)),
                   Grp(2, Plus(In(WordChars))),
                   Grp(3, Cat(<<Star(Ws), In({":"})>>))>>)

\* lines 256-267: is the text left inside a string literal?
RECURSIVE ScanInString(_, _, _, _)
ScanInString(s, i, inString, escaped) ==
  IF i > Len(s) THEN inString
  ELSE IF s[i] = BackSlash /\ ~escaped THEN ScanInString(s, i + 1, inString, TRUE)
  ELSE IF s[i] = Quote /\ ~escaped THEN ScanInString(s, i + 1, ~inString, FALSE)
  ELSE ScanInString(s, i + 1, inString, FALSE)

\* lines 281-329: drop the closing brackets that match no opener, then close
\* what is left open, innermost first.  stack holds the expected closers,
\* the last one on top.
RECURSIVE BalanceBrackets(_, _, _, _, _, _)
BalanceBrackets(s, i, stack, inString, escaped, result) ==
  IF i > Len(s)
  THEN result \o [j \in 1..Len(stack) |-> stack[Len(stack) + 1 - j]]
  ELSE LET char == s[i]
       IN IF char = BackSlash /\ ~escaped
          THEN BalanceBrackets(s, i + 1, stack, inString, TRUE, Append(result, char))
          ELSE IF char = Quote /\ ~escaped
          THEN BalanceBrackets(s, i + 1, stack, ~inString, escaped, Append(result, char))
          ELSE IF inString
          THEN BalanceBrackets(s, i + 1, stack, inString, FALSE, Append(result, char))
          ELSE IF char \in {"{", "["}
          THEN BalanceBrackets(s, i + 1, Append(stack, IF char = "{" THEN "}" ELSE "]"),
                               inString, FALSE, Append(result, char))
          ELSE IF char \in {"}", "]"}
          THEN IF Len(stack) > 0 /\ stack[Len(stack)] = char
               THEN BalanceBrackets(s, i + 1, SubSeq(stack, 1, Len(stack) - 1),
                                    inString, FALSE, Append(result, char))
               ELSE BalanceBrackets(s, i + 1, stack, inString, FALSE, result)
          ELSE BalanceBrackets(s, i + 1, stack, inString, FALSE, Append(result, char))

repairTruncatedJson(jsonStr) ==
  LET \* lines 249-253
      Unfenced(s) ==
        trim(ReReplaceFirst(ReFenceEnd, ReReplaceFirst(ReJsonFenceStart, trim(s), <<>>), <<>>))
      \* lines 256-268
      StringClosed(s) == IF ScanInString(s, 1, FALSE, FALSE) THEN Append(s, Quote) ELSE s
      \* line 271
      CommasDropped(s) ==
        ReReplaceFirst(ReFinalComma, ReReplaceAll(ReTrailingComma, s, <<Ref(1)>>), <<>>)
      \* line 274
      CommasAdded(s) ==
        ReReplaceAll(ReBracketBracket,
                     ReReplaceAll(ReBraceBrace, s, <<Txt(<<"}", ",", "{">>)>>),
                     <<Txt(<<"]", ",", "[">>)>>)
      \* line 278
      KeysQuoted(s) ==
        ReReplaceAll(ReBareKey, s, <<Ref(1), Txt(<<Quote>>), Ref(2), Txt(<<Quote>>), Ref(3)>>)
  IN IF Len(jsonStr) = 0 THEN <<>>
     ELSE BalanceBrackets(KeysQuoted(CommasAdded(CommasDropped(StringClosed(Unfenced(jsonStr))))),
                          1, <<>>, FALSE, FALSE, <<>>)

-----------------------------------------------------------------------------
(* src/web/src/App.vue: smartParseJson and tryExtractValidJson, one step   *)
(* per try block, per call and per candidate of the extraction loop.       *)

\* /(3 bq)json\s*([\s\S]*?)\s*(3 bq)/
ReJsonBlock == Cat(<<Lit(BackTicks \o <<"j", "s", "o", "n">>), Star(Ws),
                     Grp(1, Lazy(AnyChar)), Star(Ws), Lit(BackTicks)>>)
\* /(3 bq)\s*([\s\S]*?)\s*(3 bq)/
ReCodeBlock == Cat(<<Lit(BackTicks), Star(Ws), Grp(1, Lazy(AnyChar)), Star(Ws), Lit(BackTicks)>>)

\* lines 86-97: the text inside the first fenced block, or the trimmed text
StripFence(str) ==
  LET cleanStr == trim(str)
      jsonBlockMatch == ReMatch(ReJsonBlock, cleanStr)
      codeBlockMatch == ReMatch(ReCodeBlock, cleanStr)
  IN IF jsonBlockMatch.ok THEN trim(ReGroup(jsonBlockMatch, cleanStr, 1))
     ELSE IF codeBlockMatch.ok THEN trim(ReGroup(codeBlockMatch, cleanStr, 1))
     ELSE cleanStr

(* The message of the SyntaxError JSON.parse throws is the engine's own.    *)
(* "v8": 'Unexpected non-whitespace character after JSON at position N' for *)
(* text after a complete value, no position after 'Unexpected token'.       *)
(* "v8legacy": 'Unexpected token c in JSON at position N' for any offending *)
(* character but a digit, a minus or a quote ('Unexpected number/string').  *)
(* "other": neither 'position' nor 'Unexpected token' (SpiderMonkey, JSC).  *)
Engines == {"v8", "v8legacy", "other"}

\* lines 125-127: does e.message name a position after one of the two phrases?
MessageHasPosition(engine, e, text) ==
  CASE engine = "v8" -> e.kind = "after"
    [] engine = "v8legacy" ->
         \/ e.kind \in {"escape", "control"}
         \/ /\ e.kind \in {"token", "after"}
            /\ text[e.pos + 1] \notin Digits \cup {"-", Quote}
    [] OTHER -> FALSE

\* lines 160-182: the (s, e) spans from an opener to a later closer, longest
\* first; spans of one length in the order the loops made them (the sort is
\* stable), which is by ascending start.  Positions are 1-based.
RECURSIVE CandidatesOfLen(_, _, _)
CandidatesOfLen(str, len, s) ==
  IF s + len > Len(str) THEN <<>>
  ELSE (IF str[s] \in {"{", "["} /\ str[s + len] \in {"}", "]"}
        THEN <<[s |-> s, e |-> s + len]>> ELSE <<>>)
       \o CandidatesOfLen(str, len, s + 1)

RECURSIVE CandidatesFrom(_, _)
CandidatesFrom(str, len) ==
  IF len < 1 THEN <<>>
  ELSE CandidatesOfLen(str, len, 1) \o CandidatesFrom(str, len - 1)

\* the spans shortest first
CandidatesShortestFirst(str) ==
  [k \in 1..Len(CandidatesFrom(str, Len(str) - 1)) |->
     CandidatesFrom(str, Len(str) - 1)[Len(CandidatesFrom(str, Len(str) - 1)) + 1 - k]]
Candidates(str) == CandidatesFrom(str, Len(str) - 1)

\* lines 185-195: one candidate: its value when it decodes, as it is or repaired
TryCandidate(str, cand) ==
  LET sub == SubSeq(str, cand.s, cand.e)
      direct == JSONparse(sub)
  IN IF direct.ok THEN direct ELSE JSONparse(repairTruncatedJson(sub))

Returned(v) == [kind |-> "return", v |-> v]
Thrown == [kind |-> "throw", v |-> JVal("none", <<>>, <<>>)]
Running == [kind |-> "none", v |-> JVal("none", <<>>, <<>>)]
\* a string handed back as it came (line 84) is a value that is that string
Frame(str, attemptRepair) ==
  [str |-> str, attemptRepair |-> attemptRepair, pc |-> "enter",
   cleanStr |-> <<>>, idx |-> 0, ret |-> Running]

Top == callStack[Len(callStack)]
SetTop(f) == [callStack EXCEPT ![Len(callStack)] = f]
\* the running activation ends with outcome r: its caller, if any, receives it
Finish(r) ==
  IF Len(callStack) = 1
  THEN /\ callStack' = <<>>
       /\ parseOut' = r
  ELSE /\ callStack' = [SubSeq(callStack, 1, Len(callStack) - 1) EXCEPT ![Len(callStack) - 1].ret = r]
       /\ UNCHANGED parseOut

OtherVarsParse ==
  <<documentData, activeSectionId, isGenerating, now, chat, rep, nested, flat, OtherOps>>

\* lines 84-107: the guard, the fence, the first JSON.parse
SmartParseEnter ==
  /\ Len(callStack) > 0 /\ Top.pc = "enter"
  /\ LET cleanStr == StripFence(Top.str)
         r == JSONparse(cleanStr)
     IN IF Len(Top.str) = 0 THEN Finish(Returned(JVal("str", <<>>, <<>>)))
        ELSE IF r.ok THEN Finish(Returned(r.v))
        ELSE IF ~Top.attemptRepair THEN Finish(Thrown)
        ELSE /\ callStack' = SetTop([Top EXCEPT !.pc = "repair", !.cleanStr = cleanStr])
             /\ UNCHANGED parseOut
  /\ UNCHANGED <<parseIn, OtherVarsParse>>

\* lines 110-121: the repaired text, when it differs and decodes
SmartParseRepair ==
  /\ Len(callStack) > 0 /\ Top.pc = "repair"
  /\ LET repaired == repairTruncatedJson(Top.cleanStr)
         r == JSONparse(repaired)
     IN IF repaired # Top.cleanStr /\ r.ok THEN Finish(Returned(r.v))
        ELSE /\ callStack' = SetTop([Top EXCEPT !.pc = "position"])
             /\ UNCHANGED parseOut
  /\ UNCHANGED <<parseIn, OtherVarsParse>>

\* the same call with attemptRepair left at its default
PrefixCallRepairing(cleanStr, pos) == Frame(trim(substring(cleanStr, 0, pos)), TRUE)

\* lines 128-134: the activation smartParseJson(part1, false)
PrefixCall(cleanStr, pos) == Frame(trim(substring(cleanStr, 0, pos)), FALSE)

\* lines 125-140: the call on the prefix that ends where the decoder stopped
SmartParsePrefix ==
  /\ Len(callStack) > 0 /\ Top.pc = "position"
  /\ LET e == JSONparse(Top.cleanStr)
         part1 == trim(substring(Top.cleanStr, 0, e.pos))
     IN IF MessageHasPosition(parseIn.engine, e, Top.cleanStr) /\ Len(part1) > 0
        THEN callStack' = Append(SetTop([Top EXCEPT !.pc = "prefix"]),
                                 PrefixCall(Top.cleanStr, e.pos))
        ELSE callStack' = SetTop([Top EXCEPT !.pc = "extract", !.idx = 1])
  /\ UNCHANGED <<parseIn, parseOut, OtherVarsParse>>

\* lines 134-138: the prefix's value is returned; its error starts the extraction
SmartParsePrefixDone ==
  /\ Len(callStack) > 0 /\ Top.pc = "prefix" /\ Top.ret.kind # "none"
  /\ IF Top.ret.kind = "return" THEN Finish(Top.ret)
     ELSE /\ callStack' = SetTop([Top EXCEPT !.pc = "extract", !.idx = 1, !.ret = Running])
          /\ UNCHANGED parseOut
  /\ UNCHANGED <<parseIn, OtherVarsParse>>

\* lines 184-198 (called at 137 and 144): the next candidate, or the error
TryExtractStep ==
  /\ Len(callStack) > 0 /\ Top.pc = "extract"
  /\ LET cands == Candidates(Top.cleanStr)
     IN IF Top.idx > Len(cands) THEN Finish(Thrown)
        ELSE LET r == TryCandidate(Top.cleanStr, cands[Top.idx])
             IN IF r.ok THEN Finish(Returned(r.v))
                ELSE /\ callStack' = SetTop([Top EXCEPT !.idx = Top.idx + 1])
                     /\ UNCHANGED parseOut
  /\ UNCHANGED <<parseIn, OtherVarsParse>>

NextParse ==
  \/ SmartParseEnter
  \/ SmartParseRepair
  \/ SmartParsePrefix
  \/ SmartParsePrefixDone
  \/ TryExtractStep

-----------------------------------------------------------------------------
(* src/web/src/App.vue: parseNestedOutline; src/unnamed/part_002: treeData *)

Undefined == <<"undefined">>

\* line 351: the children are flattened under their enclosing item's id
childrenParentIdInherited(item, parentId) == parentId
childrenParentId(item, parentId) == item.id

\* lines 345-355: an item without its children and with parentId set, then
\* its children, then the items after it
RECURSIVE flattenOutline(_, _)
flattenOutline(items, parentId) ==
  IF Len(items) = 0 THEN <<>>
  ELSE <<[id |-> Head(items).id, title |-> Head(items).title, parentId |-> parentId]>>
       \o (IF Len(Head(items).children) > 0
           THEN flattenOutline(Head(items).children, childrenParentId(Head(items), parentId))
           ELSE <<>>)
       \o flattenOutline(Tail(items), parentId)

parseNestedOutline(nestedOutline) == flattenOutline(nestedOutline, Null)

\* part_002:796-800: the flat outline becomes the document
LoadedOutline(flatOutline) ==
  [i \in 1..Len(flatOutline) |->
     [id |-> flatOutline[i].id, title |-> flatOutline[i].title,
      parentId |-> flatOutline[i].parentId, content |-> <<>>, status |-> "pending"]]

\* part_002:274: the deepest level buildTree descends to
MaxTreeDepth == 10

\* part_002:267-270
normalizedData(data) ==
  [i \in 1..Len(data) |->
     [data[i] EXCEPT !.parentId = IF data[i].parentId = Undefined THEN Null ELSE data[i].parentId]]

\* part_002:272-289; a call with an undefined parentId takes the default, null
RECURSIVE buildTree(_, _, _)
buildTree(list, parentId, depth) ==
  LET Node(item, children) ==
        [key |-> item.id, title |-> item.title, isLeaf |-> Len(children) = 0,
         children |-> IF Len(children) > 0 THEN children ELSE Undefined]
      Nodes(items) ==
        [i \in 1..Len(items) |->
           Node(items[i],
                buildTree(list, IF items[i].id = Undefined THEN Null ELSE items[i].id,
                          depth + 1))]
  IN IF depth > MaxTreeDepth THEN <<>>
     ELSE Nodes(SelectSeq(list, LAMBDA item : item.parentId = parentId))

\* part_002:265-298
treeData == buildTree(normalizedData(documentData), Null, 0)

\* Outline generation hands the decoded nested outline to parseNestedOutline
\* (part_002:793) and shows the result (part_002:796-800).
FlattenOutline ==
  /\ flat = <<>>
  /\ flat' = <<parseNestedOutline(nested)>>
  /\ UNCHANGED <<documentData, activeSectionId, isGenerating, now, chat, OtherOps,
                 rep, parseIn, callStack, parseOut, nested>>

ShowOutline ==
  /\ flat # <<>> /\ flat[1] # <<>> /\ documentData = <<>>
  /\ documentData' = LoadedOutline(flat[1])
  /\ UNCHANGED <<activeSectionId, isGenerating, now, chat, OtherOps,
                 rep, parseIn, callStack, parseOut, nested, flat>>

NextOutline == FlattenOutline \/ ShowOutline

-----------------------------------------------------------------------------
(* src/unnamed/part_002: titles and numbering.  A section is a record       *)
(* [id, parentId, title, content, status]; ids, titles and contents are    *)
(* strings.                                                                 *)

ReLeadingHashes == Cat(<<Bol, Plus(In({"#"})), Plus(Ws)>>)                 \* /^#+\s+/
ReLeadingNumber == Cat(<<Bol, Plus(In(Digits \cup {"."})), Star(Ws)>>)     \* /^[\d.]+\s*/
ReBold == Lit(<<"*", "*">>)                                                \* /\*\*/g
ReSpaces == Plus(Ws)                                                       \* /\s+/g

\* lines 479-487
getNormalizedTitle(title) ==
  IF title = Undefined \/ Len(title) = 0 THEN <<>>
  ELSE ReReplaceAll(ReSpaces,
         ReReplaceAll(ReBold,
           ReReplaceFirst(ReLeadingNumber,
             ReReplaceFirst(ReLeadingHashes, toLowerCase(trim(title)), <<>>),
             <<>>),
           <<>>),
         <<Txt(<<" ">>)>>)

\* /^(\d+(\.\d+)*)\.?\s*/
ReArabicPrefix ==
  Cat(<<Bol,
        Grp(1, Cat(<<Plus(In(Digits)), Star(Grp(2, Cat(<<In({"."}), Plus(In(Digits))>>)))>>)),
        Opt(In({"."})), Star(Ws)>>)
\* the numerals U+4E00 (yi) ... U+5341 (shi), the comma U+3001 and the
\* brackets U+FF08, U+FF09
ChineseDigits == {"yi", "er", "san", "si", "wu", "liu", "qi", "ba", "jiu", "shi"}
ReChineseMain == Cat(<<Bol, Grp(1, Plus(In(ChineseDigits))), In({"dunhao"})>>)
ReChineseParens ==
  Cat(<<Bol, In({"zuokuohao"}), Grp(1, Cat(<<Plus(In(ChineseDigits)), In({"youkuohao"})>>))>>)
\* lines 496-501
chineseNums(num) ==
  CASE num = <<"yi">> -> <<"1">>   [] num = <<"er">> -> <<"2">>
    [] num = <<"san">> -> <<"3">>  [] num = <<"si">> -> <<"4">>
    [] num = <<"wu">> -> <<"5">>   [] num = <<"liu">> -> <<"6">>
    [] num = <<"qi">> -> <<"7">>   [] num = <<"ba">> -> <<"8">>
    [] num = <<"jiu">> -> <<"9">>  [] num = <<"shi">> -> <<"1", "0">>
    [] num = <<"shi", "yi">> -> <<"1", "1">>   [] num = <<"shi", "er">> -> <<"1", "2">>
    [] num = <<"shi", "san">> -> <<"1", "3">>  [] num = <<"shi", "si">> -> <<"1", "4">>
    [] num = <<"shi", "wu">> -> <<"1", "5">>   [] num = <<"shi", "liu">> -> <<"1", "6">>
    [] num = <<"shi", "qi">> -> <<"1", "7">>   [] num = <<"shi", "ba">> -> <<"1", "8">>
    [] num = <<"shi", "jiu">> -> <<"1", "9">>  [] num = <<"er", "shi">> -> <<"2", "0">>
    [] OTHER -> num

\* lines 490-513
getSectionNumberPrefix(title) ==
  Bind(ReMatch(ReArabicPrefix, title), LAMBDA arabic :
    IF arabic.ok THEN ReGroup(arabic, title, 1)
    ELSE Bind(ReMatch(ReChineseMain, title), LAMBDA main :
           IF main.ok THEN chineseNums(ReGroup(main, title, 1))
           ELSE Bind(ReMatch(ReChineseParens, title), LAMBDA parens :
                  IF parens.ok
                  THEN chineseNums(SelectSeq(ReGroup(parens, title, 1),
                                             LAMBDA c : c # "youkuohao"))
                  ELSE <<>>)))

\* the decimal numeral of a natural number
RECURSIVE ToDecimal(_)
ToDecimal(n) ==
  IF n < 10 THEN <<ToString(n)>> ELSE Append(ToDecimal(n \div 10), ToString(n % 10))

\* the numbering that counts the children from 0
fixSectionTitleNumberingFromZero(parentTitle, childTitle, index) ==
  IF Len(getSectionNumberPrefix(parentTitle)) > 0
  THEN getSectionNumberPrefix(parentTitle) \o <<".">> \o ToDecimal(index) \o <<" ">>
       \o getNormalizedTitle(childTitle)
  ELSE childTitle
\* lines 516-525
fixSectionTitleNumbering(parentTitle, childTitle, index) ==
  IF Len(getSectionNumberPrefix(parentTitle)) > 0
  THEN getSectionNumberPrefix(parentTitle) \o <<".">> \o ToDecimal(index + 1) \o <<" ">>
       \o getNormalizedTitle(childTitle)
  ELSE childTitle

\* the truthiness of a string, null or undefined
Truthy(x) == x # Undefined /\ x # Null /\ Len(x) > 0

\* String.prototype.split on a one-character separator
RECURSIVE SplitOn(_, _)
SplitOn(s, sep) ==
  IF \A i \in 1..Len(s) : s[i] # sep THEN <<s>>
  ELSE Bind(CHOOSE i \in 1..Len(s) : s[i] = sep /\ \A j \in 1..(i - 1) : s[j] # sep,
            LAMBDA i : <<SubSeq(s, 1, i - 1)>> \o SplitOn(SubSeq(s, i + 1, Len(s)), sep))

\* Array.prototype.join
RECURSIVE JoinWith(_, _)
JoinWith(parts, sep) ==
  IF Len(parts) = 0 THEN <<>>
  ELSE IF Len(parts) = 1 THEN parts[1]
  ELSE parts[1] \o sep \o JoinWith(Tail(parts), sep)

\* Number(part) of line 344 for the parts of a prefix: the value of a decimal
\* numeral, 0 for the empty string, NaN for anything else
NaN == -2
RECURSIVE DecimalValue(_)
DecimalValue(ds) ==
  IF Len(ds) = 0 THEN 0
  ELSE 10 * DecimalValue(SubSeq(ds, 1, Len(ds) - 1))
       + (CHOOSE d \in 0..9 : ToString(d) = ds[Len(ds)])
Number(part) ==
  IF \A i \in 1..Len(part) : part[i] \in Digits THEN DecimalValue(part) ELSE NaN

\* lines 305-311 and 325: the id stored last under a title that starts with
\* the prefix
prefixMapByTitle(data, prefix) ==
  Bind({i \in 1..Len(data) : startsWith(data[i].title, prefix)}, LAMBDA hits :
    IF hits = {} THEN Undefined
    ELSE data[CHOOSE i \in hits : \A j \in hits : j <= i].id)
\* lines 305-311 and 325: the id stored last under the prefix
prefixMap(data, prefix) ==
  Bind({i \in 1..Len(data) : getSectionNumberPrefix(data[i].title) = prefix}, LAMBDA hits :
    IF hits = {} THEN Undefined
    ELSE data[CHOOSE i \in hits : \A j \in hits : j <= i].id)

\* lines 314-333
listWithParents(data) ==
  [i \in 1..Len(data) |->
     Bind(getSectionNumberPrefix(data[i].title), LAMBDA prefix :
       IF Len(prefix) = 0
       THEN [data[i] EXCEPT !.parentId = IF @ = Undefined THEN Null ELSE @]
       ELSE Bind(SplitOn(prefix, "."), LAMBDA parts :
              IF Len(parts) > 1
              THEN Bind(prefixMap(data, JoinWith(SubSeq(parts, 1, Len(parts) - 1), <<".">>)),
                        LAMBDA parentId :
                          [data[i] EXCEPT !.parentId = IF Truthy(parentId) THEN parentId
                                                       ELSE Null])
              ELSE [data[i] EXCEPT !.parentId = Null]))]

\* lines 347-353: the first difference of the parts, a missing part counting
\* as -1; NaN differs from everything and makes the difference NaN, which
\* the sort takes as 0
RECURSIVE compareParts(_, _, _)
compareParts(partsA, partsB, i) ==
  IF i > Len(partsA) /\ i > Len(partsB) THEN 0
  ELSE Bind(IF i > Len(partsA) THEN -1 ELSE Number(partsA[i]), LAMBDA vA :
         Bind(IF i > Len(partsB) THEN -1 ELSE Number(partsB[i]), LAMBDA vB :
           IF vA = NaN \/ vB = NaN THEN 0
           ELSE IF vA # vB THEN vA - vB
           ELSE compareParts(partsA, partsB, i + 1)))

\* lines 336-354: the comparison function
comparePrefixes(prefixA, prefixB) ==
  IF Len(prefixA) = 0 /\ Len(prefixB) = 0 THEN 0
  ELSE IF Len(prefixA) = 0 THEN 1
  ELSE IF Len(prefixB) = 0 THEN -1
  ELSE compareParts(SplitOn(prefixA, "."), SplitOn(prefixB, "."), 1)

\* Array.prototype.sort (stable) by that comparison: each element goes after
\* the last one that is not greater
RECURSIVE InsertByPrefix(_, _)
InsertByPrefix(sorted, x) ==
  IF Len(sorted) > 0 /\
     comparePrefixes(getSectionNumberPrefix(sorted[Len(sorted)].title),
                     getSectionNumberPrefix(x.title)) > 0
  THEN Append(InsertByPrefix(SubSeq(sorted, 1, Len(sorted) - 1), x), sorted[Len(sorted)])
  ELSE Append(sorted, x)
RECURSIVE sortByPrefix(_)
sortByPrefix(list) ==
  IF Len(list) = 0 THEN <<>>
  ELSE InsertByPrefix(sortByPrefix(SubSeq(list, 1, Len(list) - 1)), list[Len(list)])

\* lines 301-355
reconstructHierarchy(data) == sortByPrefix(listWithParents(data))

-----------------------------------------------------------------------------
(* src/unnamed/part_002: the merges that infer sub-sections                 *)

\* /^(##+|###+)\s+(.+)$/gm
headingRegex ==
  Cat(<<BolM,
        Grp(1, Alt(<<Cat(<<In({"#"}), Plus(In({"#"}))>>),
                     Cat(<<In({"#"}), In({"#"}), Plus(In({"#"}))>>)>>)),
        Plus(Ws), Grp(2, Plus(Dot)), EolM>>)

\* findIndex and findLastIndex, 1-based, 0 when there is none
findIndex(doc, id) ==
  IF \E i \in 1..Len(doc) : doc[i].id = id
  THEN CHOOSE i \in 1..Len(doc) : doc[i].id = id /\ \A j \in 1..(i - 1) : doc[j].id # id
  ELSE 0
\* the position of the parent alone, whatever children it has
findParentIndexOnly(doc, parentId) ==
  IF \E i \in 1..Len(doc) : doc[i].id = parentId
  THEN CHOOSE i \in 1..Len(doc) : doc[i].id = parentId /\ \A j \in (i + 1)..Len(doc) : doc[j].id # parentId
  ELSE 0
\* lines 1830, 1895: the last position held by the parent or one of its children
findLastFamilyIndex(doc, parentId) ==
  Bind({i \in 1..Len(doc) : doc[i].parentId = parentId \/ doc[i].id = parentId}, LAMBDA hits :
    IF hits = {} THEN 0 ELSE CHOOSE i \in hits : \A j \in hits : j <= i)
\* splice(idx - 1, 1, ...items): the items take the place of the idx-th element
InsertAtReplacing(doc, idx, items) ==
  SubSeq(doc, 1, idx - 1) \o items \o SubSeq(doc, idx + 1, Len(doc))
\* splice(idx, 0, ...items), idx counting the elements before the insertion
InsertAt(doc, idx, items) == SubSeq(doc, 1, idx) \o items \o SubSeq(doc, idx + 1, Len(doc))

normalizedTitles(doc) == {getNormalizedTitle(doc[i].title) : i \in 1..Len(doc)}

\* lines 1854, 1921 under a parent nested below the top level
parentLevelNested(parent) == 3
\* lines 1854, 1921: the heading level the parent itself is written at
parentLevel(parent) == IF Truthy(parent.parentId) THEN 3 ELSE 2

\* the ids of lines 1819, 1886, 1979: parentId, tag, Date.now(), "-", i
subSectionId(parentId, tag, time, i) ==
  parentId \o tag \o ToDecimal(time) \o <<"-">> \o ToDecimal(i)
SubTag == <<"-", "s", "u", "b", "-">>
SubTmpTag == <<"-", "s", "u", "b", "-", "t", "m", "p", "-">>

\* lines 1864-1902: the matches from the k-th on, existing the titles seen
RECURSIVE realtimeEach(_, _, _, _, _, _, _)
realtimeEach(doc, parent, fullContent, matches, k, existing, time) ==
  IF k > Len(matches) THEN doc
  ELSE Bind(trim(ReGroup(matches[k], fullContent, 2)), LAMBDA title :
         Bind(getNormalizedTitle(title), LAMBDA normalizedTitle :
           IF Len(ReGroup(matches[k], fullContent, 1)) <= parentLevel(parent)
              \/ normalizedTitle \in existing
              \/ normalizedTitle = getNormalizedTitle(parent.title)
           THEN realtimeEach(doc, parent, fullContent, matches, k + 1, existing, time)
           ELSE realtimeEach(
                  InsertAt(doc, findLastFamilyIndex(doc, parent.id),
                           <<[id |-> subSectionId(parent.id, SubTmpTag, time, k - 1),
                              parentId |-> parent.id,
                              title |-> fixSectionTitleNumbering(parent.title, title,
                                          Cardinality({i \in 1..Len(doc) :
                                                         doc[i].parentId = parent.id})),
                              content |-> <<>>,
                              status |-> "pending"]>>),
                  parent, fullContent, matches, k + 1,
                  existing \cup {normalizedTitle}, time)))

\* lines 1842-1908
syncSubSectionsToOutlineRealtime(doc, parentId, fullContent, time) ==
  Bind(ReMatchAll(headingRegex, fullContent), LAMBDA matches :
    IF Len(matches) = 0 \/ findIndex(doc, parentId) = 0 THEN doc
    ELSE realtimeEach(doc, doc[findIndex(doc, parentId)], fullContent, matches, 1,
                      normalizedTitles(doc), time))

\* lines 1961-1989: the sub-sections of the actual matches from the k-th on
RECURSIVE finalEach(_, _, _, _, _, _, _)
finalEach(parent, fullContent, actualMatches, k, newSubSections, existingOther, time) ==
  IF k > Len(actualMatches) THEN newSubSections
  ELSE Bind(trim(ReGroup(actualMatches[k], fullContent, 2)), LAMBDA title :
         Bind(getNormalizedTitle(title), LAMBDA normalizedTitle :
           IF normalizedTitle \in existingOther
           THEN finalEach(parent, fullContent, actualMatches, k + 1, newSubSections,
                          existingOther, time)
           ELSE finalEach(parent, fullContent, actualMatches, k + 1,
                          Append(newSubSections,
                                 [id |-> subSectionId(parent.id, SubTag, time, k - 1),
                                  parentId |-> parent.id,
                                  title |-> fixSectionTitleNumbering(parent.title, title,
                                                                     Len(newSubSections)),
                                  content |->
                                    trim(SubSeq(fullContent, actualMatches[k].e,
                                                IF k < Len(actualMatches)
                                                THEN actualMatches[k + 1].s - 1
                                                ELSE Len(fullContent))),
                                  status |-> "completed"]),
                          existingOther \cup {normalizedTitle}, time)))

\* lines 1910-1997
syncSubSectionsToOutline(doc, parentId, fullContent, time) ==
  Bind(ReMatchAll(headingRegex, fullContent), LAMBDA matches :
    IF Len(matches) = 0 \/ findIndex(doc, parentId) = 0 THEN doc
    ELSE Bind(findIndex(doc, parentId), LAMBDA parentIndex :
           Bind(SelectSeq(matches,
                          LAMBDA m :
                            /\ Len(ReGroup(m, fullContent, 1)) > parentLevel(doc[parentIndex])
                            /\ getNormalizedTitle(trim(ReGroup(m, fullContent, 2)))
                                 # getNormalizedTitle(doc[parentIndex].title)),
                LAMBDA actualMatches :
                  IF Len(actualMatches) = 0
                  THEN [doc EXCEPT ![parentIndex].content = trim(fullContent)]
                  ELSE Bind(SelectSeq([doc EXCEPT ![parentIndex].content =
                                         trim(SubSeq(fullContent, 1, actualMatches[1].s - 1))],
                                      LAMBDA s : s.parentId # parentId),
                            LAMBDA filteredData :
                              InsertAt(filteredData, findIndex(filteredData, parentId),
                                       finalEach(doc[parentIndex], fullContent, actualMatches,
                                                 1, <<>>,
                                                 {getNormalizedTitle(doc[i].title) :
                                                    i \in {j \in 1..Len(doc) :
                                                             doc[j].parentId # parentId
                                                             /\ doc[j].id # parentId}},
                                                 time))))))

\* lines 1805-1810: the sections from the k-th on that pass the filter
RECURSIVE fromJsonFilter(_, _, _, _)
fromJsonFilter(sections, k, existing, normalizedParentTitle) ==
  IF k > Len(sections) THEN <<>>
  ELSE Bind(getNormalizedTitle(sections[k].title), LAMBDA normalizedTitle :
         IF normalizedTitle = normalizedParentTitle \/ normalizedTitle \in existing
         THEN fromJsonFilter(sections, k + 1, existing, normalizedParentTitle)
         ELSE <<sections[k]>> \o fromJsonFilter(sections, k + 1,
                                                existing \cup {normalizedTitle},
                                                normalizedParentTitle))

\* lines 1793-1839
syncSubSectionsFromJson(doc, parentId, sections, time) ==
  IF findIndex(doc, parentId) = 0 THEN doc
  ELSE Bind(doc[findIndex(doc, parentId)], LAMBDA parent :
         Bind(fromJsonFilter(sections, 1, normalizedTitles(doc),
                             getNormalizedTitle(parent.title)),
              LAMBDA kept :
                InsertAt(doc, findLastFamilyIndex(doc, parentId),
                         [i \in 1..Len(kept) |->
                            [id |-> IF Truthy(kept[i].id) THEN kept[i].id
                                    ELSE subSectionId(parentId, SubTag, time, i - 1),
                             parentId |-> parentId,
                             title |-> fixSectionTitleNumbering(parent.title, kept[i].title,
                                                                i - 1),
                             content |-> IF Truthy(kept[i].content) THEN kept[i].content
                                         ELSE <<>>,
                             status |-> "pending"]])))

-----------------------------------------------------------------------------
(* src/unnamed/part_002: sendMessage.  chat holds the handler's position   *)
(* (pc), its locals fullText and currentSectionIndex (1-based, 0 for -1)   *)
(* and the assistantMsg it pushed; sent and received count the messages    *)
(* sent and the records of the running stream.  A record of the stream is  *)
(* [hasSnapshot, snapshot, text]: agent_state.documentStructure, if any,   *)
(* and the text of its content field, "" when it has none.                 *)

ThinkOpen == <<"<", "t", "h", "i", "n", "k", ">">>
ThinkClose == <<"<", "/", "t", "h", "i", "n", "k", ">">>
SummaryOpen == <<"<", "s", "u", "m", "m", "a", "r", "y", ">">>
SummaryClose == <<"<", "/", "s", "u", "m", "m", "a", "r", "y", ">">>
ContentOpen == <<"<", "c", "o", "n", "t", "e", "n", "t", ">">>
ContentClose == <<"<", "/", "c", "o", "n", "t", "e", "n", "t", ">">>
CheckOpen == <<"<", "c", "h", "e", "c", "k", ">">>
CheckClose == <<"<", "/", "c", "h", "e", "c", "k", ">">>

\* the same with a greedy body: /<x>([\s\S]*)(?:<\/x>|$)/
ReChannelGreedy(open, close) ==
  Cat(<<Lit(open), Grp(1, Star(AnyChar)), Alt(<<Lit(close), Eol>>)>>)
\* lines 1617, 1624, 1630, 1724: /<x>([\s\S]*?)(?:<\/x>|$)/
ReChannel(open, close) ==
  Cat(<<Lit(open), Grp(1, Lazy(AnyChar)), Alt(<<Lit(close), Eol>>)>>)

\* line 1638: /(3 bq)json|(3 bq)/g
ReFenceMarks == Alt(<<Lit(BackTicks \o <<"j", "s", "o", "n">>), Lit(BackTicks)>>)

\* (?:##+|###+|#|\*\*|) of lines 1692 and 1703
ReTitleMarks ==
  Alt(<<Cat(<<In({"#"}), Plus(In({"#"}))>>),
        Cat(<<In({"#"}), In({"#"}), Plus(In({"#"}))>>),
        In({"#"}), Lit(<<"*", "*">>), Eps>>)
\* line 1692: the section's own title at the very start, under the i flag
redundantPattern(sectionTitle) ==
  Cat(<<Bol, Star(Ws), ReTitleMarks, Star(Ws),
        Opt(Cat(<<Plus(In(Digits)), Opt(In({"."})), Star(Ws)>>)),
        LitI(sectionTitle), Star(Ws), Opt(Lit(<<"*", "*">>)), Star(In({"\n"}))>>)
\* line 1698: /^(\d+)\./
ReSectionNumber == Cat(<<Bol, Grp(1, Plus(In(Digits))), In({"."})>>)
\* line 1703: a line that starts with the next main number, under the m flag
nextSectionRegex(nextNum) ==
  Cat(<<Alt(<<In({"\n"}), BolM>>), ReTitleMarks, Star(Ws),
        Lit(ToDecimal(nextNum)), In({"."}), Plus(Ws), Star(Dot)>>)
\* line 1711: /(?:\n|^)(?:##+|#)\s+\d+\..*/g
generalNextPattern ==
  Cat(<<Alt(<<In({"\n"}), Bol>>),
        Alt(<<Cat(<<In({"#"}), Plus(In({"#"}))>>), In({"#"})>>),
        Plus(Ws), Plus(In(Digits)), In({"."}), Star(Dot)>>)

\* re.test(text) ? text.split(re)[0].trim() : text, what stands before the
\* first match
BeforeFirst(re, text) ==
  Bind(ReMatch(re, text), LAMBDA m : IF m.ok THEN trim(SubSeq(text, 1, m.s - 1)) ELSE text)

\* lines 1689-1714: the body without its own title and without what follows
\* the next main heading
cleanSectionContent(sectionTitle, rawContent) ==
  Bind(trim(ReReplaceFirst(redundantPattern(sectionTitle), rawContent, <<>>)), LAMBDA c :
    Bind(ReMatch(ReSectionNumber, sectionTitle), LAMBDA sectionMatch :
      IF sectionMatch.ok
      THEN BeforeFirst(generalNextPattern,
             BeforeFirst(nextSectionRegex(
                           DecimalValue(ReGroup(sectionMatch, sectionTitle, 1)) + 1), c))
      ELSE BeforeFirst(generalNextPattern, c)))

\* the fixed texts of lines 1656, 1657 and 1677
Placeholder == <<"(", "qing", "zai", "ci", "shu", "ru", "nei", "rong", ")">>
SubSectionsNotice ==
  <<"yi3", "wei", "nin", "gui", "hua", "le", "zi", "zhang", "jie", "jie2", "gou", "juhao">>
OutlineNotice ==
  <<"yi3", "wei", "nin", "gui", "hua", "quan", "wen", "da", "gang", "douhao",
    "qing", "zai", "you", "ce", "cha", "kan", "juhao">>

\* a property of a decoded object that holds a string; Undefined when the
\* value is no object or has no such property (the records drawn below
\* carry string properties only)
JField(v, key) ==
  IF v.t # "obj" THEN Undefined
  ELSE Bind({j \in 1..Len(v.k) : v.k[j][1] = key}, LAMBDA hits :
         IF hits = {} THEN Undefined
         ELSE Bind(v.k[CHOOSE j \in hits : TRUE][2], LAMBDA e :
                IF e.t = "str" THEN e.v ELSE Undefined))
KeyId == <<"i", "d">>
KeyTitle == <<"t", "i", "t", "l", "e">>
KeyContent == <<"c", "o", "n", "t", "e", "n", "t">>
KeyParentId == <<"p", "a", "r", "e", "n", "t", "I", "d">>

\* lines 1637-1648: the decoded array when the body is a JSON outline, <<>>
\* when it is not
parsedJsonOutline(rawContent) ==
  Bind(trim(ReReplaceAll(ReFenceMarks, rawContent, <<>>)), LAMBDA c :
    IF startsWith(c, <<"[">>) /\ endsWith(c, <<"]">>)
    THEN Bind(JSONparse(c), LAMBDA r :
           IF r.ok /\ r.v.t = "arr" /\ Len(r.v.k) > 0 /\ Truthy(JField(r.v.k[1], KeyTitle))
           THEN r.v.k ELSE <<>>)
    ELSE <<>>)

\* line 1656
markdownVersion(parsedJson) ==
  JoinWith([i \in 1..Len(parsedJson) |->
              <<"#", "#", " ">> \o JField(parsedJson[i], KeyTitle) \o <<"\n", "\n">>
              \o (IF Truthy(JField(parsedJson[i], KeyContent))
                  THEN JField(parsedJson[i], KeyContent) ELSE Placeholder)],
           <<"\n", "\n">>)

\* lines 1665-1669
rawOutlineOf(parsedJson) ==
  [i \in 1..Len(parsedJson) |->
     [id |-> JField(parsedJson[i], KeyId), parentId |-> JField(parsedJson[i], KeyParentId),
      title |-> JField(parsedJson[i], KeyTitle), content |-> <<>>, status |-> "pending"]]
\* the sections argument of line 1653
sectionsOf(parsedJson) ==
  [i \in 1..Len(parsedJson) |->
     [id |-> JField(parsedJson[i], KeyId), title |-> JField(parsedJson[i], KeyTitle),
      content |-> JField(parsedJson[i], KeyContent)]]

NewMsg ==
  [content |-> <<>>, thinking |-> <<>>, summary |-> <<>>, qualityCheck |-> <<>>,
   isThinking |-> FALSE, isFinished |-> FALSE]
\* what the operation found when it started: the selected section and its
\* content (a record kept for the properties; the handler does not read it)
NotSent == [id |-> Null, content |-> Undefined]
ChatIdle ==
  [pc |-> "idle", fullText |-> <<>>, msg |-> NewMsg, currentSectionIndex |-> 0,
   sent |-> 0, received |-> 0, sentFor |-> NotSent]

\* one section of a snapshot, its content taken whenever it has one
mergeSectionAnyLength(doc, newSec) ==
  Bind(findIndex(doc, newSec.id), LAMBDA i :
    IF i = 0 THEN doc
    ELSE [doc EXCEPT
            ![i].content = IF Truthy(newSec.content) THEN newSec.content ELSE @,
            ![i].status = IF newSec.status # "" THEN newSec.status ELSE @,
            ![i].title = IF Truthy(newSec.title) THEN newSec.title ELSE @])
\* lines 1582-1593: one section of a snapshot
mergeSection(doc, newSec) ==
  Bind(findIndex(doc, newSec.id), LAMBDA i :
    IF i = 0 THEN doc
    ELSE [doc EXCEPT
            ![i].content =
              IF Truthy(newSec.content) /\ (~Truthy(@) \/ Len(newSec.content) >= Len(@))
              THEN newSec.content ELSE @,
            ![i].status = IF newSec.status # "" THEN newSec.status ELSE @,
            ![i].title = IF Truthy(newSec.title) THEN newSec.title ELSE @])
RECURSIVE mergeSnapshot(_, _)
mergeSnapshot(doc, newStructure) ==
  IF Len(newStructure) = 0 THEN doc
  ELSE mergeSnapshot(mergeSection(doc, Head(newStructure)), Tail(newStructure))

\* The handler works on h = [doc, msg, fullText]: documentData, assistantMsg
\* and fullText as its statements leave them.  active is activeSectionId.

\* lines 1577-1603
onSnapshot(h, record, active) ==
  IF ~record.hasSnapshot THEN h
  ELSE Bind(mergeSnapshot(h.doc, record.snapshot), LAMBDA doc :
         Bind(findIndex(doc, active), LAMBDA i :
           IF active # Null /\ i > 0 /\ Truthy(doc[i].content) /\ ~Truthy(h.msg.content)
           THEN [h EXCEPT !.doc = doc, !.msg.content = doc[i].content]
           ELSE [h EXCEPT !.doc = doc]))

\* lines 1617-1621
onThink(h) ==
  Bind(ReMatch(ReChannel(ThinkOpen, ThinkClose), h.fullText), LAMBDA m :
    IF m.ok
    THEN [h EXCEPT !.msg.thinking = ReGroup(m, h.fullText, 1),
                   !.msg.isThinking = ~includes(h.fullText, ThinkClose)]
    ELSE h)

\* lines 1624-1627
onSummary(h) ==
  Bind(ReMatch(ReChannel(SummaryOpen, SummaryClose), h.fullText), LAMBDA m :
    IF m.ok THEN [h EXCEPT !.msg.summary = trim(ReGroup(m, h.fullText, 1))] ELSE h)

\* lines 1650-1678: the body is a JSON outline
onJsonOutline(h, parsedJson, active, time) ==
  IF active # Null
  THEN Bind(syncSubSectionsFromJson(h.doc, active, sectionsOf(parsedJson), time), LAMBDA doc :
         Bind(findIndex(doc, active), LAMBDA i :
           Bind(markdownVersion(parsedJson), LAMBDA text :
             [h EXCEPT !.doc = IF i > 0 /\ doc[i].content # text
                               THEN [doc EXCEPT ![i].content = text] ELSE doc,
                       !.msg.content = SubSectionsNotice])))
  ELSE [h EXCEPT !.doc = reconstructHierarchy(rawOutlineOf(parsedJson)),
                 !.msg.content = OutlineNotice]

\* lines 1680-1719: the body is text
onBodyText(h, rawContent, active, time) ==
  IF active # Null
     /\ ~startsWith(rawContent, <<"[">>)
     /\ ~startsWith(rawContent, BackTicks \o <<"j", "s", "o", "n">>)
  THEN Bind(findIndex(h.doc, active), LAMBDA i :
         IF i > 0 /\ h.doc[i].content # rawContent
         THEN Bind(cleanSectionContent(h.doc[i].title, rawContent), LAMBDA cleanContent :
                [h EXCEPT !.msg.content = rawContent,
                          !.doc = syncSubSectionsToOutlineRealtime(
                                    [h.doc EXCEPT ![i].content = cleanContent],
                                    active, cleanContent, time)])
         ELSE [h EXCEPT !.msg.content = rawContent])
  ELSE [h EXCEPT !.msg.content = rawContent]

\* lines 1630-1721
onContent(h, active, time) ==
  Bind(ReMatch(ReChannel(ContentOpen, ContentClose), h.fullText), LAMBDA m :
    IF m.ok
    THEN Bind(trim(ReGroup(m, h.fullText, 1)), LAMBDA rawContent :
           Bind(parsedJsonOutline(rawContent), LAMBDA parsedJson :
             IF Len(parsedJson) > 0 THEN onJsonOutline(h, parsedJson, active, time)
             ELSE onBodyText(h, rawContent, active, time)))
    ELSE h)

\* lines 1724-1727
onCheck(h) ==
  Bind(ReMatch(ReChannel(CheckOpen, CheckClose), h.fullText), LAMBDA m :
    IF m.ok THEN [h EXCEPT !.msg.qualityCheck = trim(ReGroup(m, h.fullText, 1))] ELSE h)

\* lines 1730-1744: no body delimiter yet: the text outside the other channels
onNoContentTag(h, active, currentSectionIndex) ==
  IF includes(h.fullText, ContentOpen) THEN h
  ELSE Bind(trim(ReReplaceAll(ReChannel(CheckOpen, CheckClose),
                   ReReplaceAll(ReChannel(SummaryOpen, SummaryClose),
                     ReReplaceAll(ReChannel(ThinkOpen, ThinkClose), h.fullText, <<>>),
                     <<>>),
                   <<>>)),
            LAMBDA cleanContent :
              IF Len(cleanContent) = 0 THEN h
              ELSE IF active # Null /\ currentSectionIndex > 0
                      /\ currentSectionIndex <= Len(h.doc)
              THEN [h EXCEPT !.msg.content = cleanContent,
                             !.doc[currentSectionIndex].content = cleanContent]
              ELSE [h EXCEPT !.msg.content = cleanContent])

\* lines 1613-1745
onText(h, record, active, currentSectionIndex, time) ==
  IF Len(record.text) = 0 THEN h
  ELSE onNoContentTag(
         onCheck(onContent(onSummary(onThink([h EXCEPT !.fullText = @ \o record.text])),
                           active, time)),
         active, currentSectionIndex)

\* lines 1573-1748: one record of the stream
onRecord(h, record, active, currentSectionIndex, time) ==
  onText(onSnapshot(h, record, active), record, active, currentSectionIndex, time)

OtherVarsJson == <<rep, parseIn, callStack, parseOut, nested, flat>>
OtherVarsDoc == <<OtherVarsJson, OtherOps>>
OtherVarsChat ==
  <<OtherVarsJson, generation, handling, offsetHeight, pageCount, extraction, reader, kb>>

\* how many messages the user sends
MaxMessages == 1

\* lines 1449-1519: the guard, isGenerating, the request
SendMessage ==
  /\ ~isGenerating /\ chat.pc = "idle" /\ chat.sent < MaxMessages
  /\ isGenerating' = TRUE
  /\ chat' = [chat EXCEPT
                !.pc = "requesting", !.sent = @ + 1,
                !.sentFor =
                   IF activeSectionId # Null /\ findIndex(documentData, activeSectionId) > 0
                   THEN [id |-> activeSectionId,
                         content |-> documentData[findIndex(documentData,
                                                            activeSectionId)].content]
                   ELSE NotSent]
  /\ writingSectionId' = IF activeSectionId # Null THEN activeSectionId
                         ELSE writingSectionId
  /\ UNCHANGED <<documentData, activeSectionId, now, OtherVarsChat>>

\* lines 1519-1526 and 1782-1789: the request is rejected or answered not ok
SendMessageRejected ==
  /\ chat.pc = "requesting"
  /\ isGenerating' = FALSE
  /\ chat' = [chat EXCEPT !.pc = "idle", !.sentFor = NotSent]
  /\ writingSectionId' = Null
  /\ UNCHANGED <<documentData, activeSectionId, now, OtherVarsChat>>

\* lines 1528-1554: the answer arrives; the selected section is emptied
SendMessageResponse ==
  /\ chat.pc = "requesting"
  /\ \E idx \in {IF activeSectionId # Null THEN findIndex(documentData, activeSectionId)
                  ELSE 0} :
       /\ chat' = [chat EXCEPT !.pc = "streaming", !.fullText = <<>>, !.msg = NewMsg,
                               !.currentSectionIndex = idx, !.received = 0]
       /\ documentData' =
            IF idx > 0
            THEN [documentData EXCEPT ![idx].status = "writing", ![idx].content = <<>>]
            ELSE documentData
  /\ UNCHANGED writingSectionId
  /\ UNCHANGED <<activeSectionId, isGenerating, now, OtherVarsChat>>

\* lines 1556-1750: the stream delivers one record of the pool, at most limit
\* records in all
SendMessageRecord(pool, limit) ==
  /\ chat.pc = "streaming" /\ chat.received < limit
  /\ \E record \in pool :
       \E h \in {onRecord([doc |-> documentData, msg |-> chat.msg, fullText |-> chat.fullText],
                          record, activeSectionId, chat.currentSectionIndex, now)} :
         /\ documentData' = h.doc
         /\ chat' = [chat EXCEPT !.fullText = h.fullText, !.msg = h.msg, !.received = @ + 1]
  /\ UNCHANGED writingSectionId
  /\ UNCHANGED <<activeSectionId, isGenerating, now, OtherVarsChat>>

\* lines 1752-1789: the stream ends; what it left in the buffer without a
\* line end goes to fullText only (lines 1753-1763), which the handler does
\* not read again; in local mode the section is completed and its body split
\* into sub-sections.  The section at currentSectionIndex may be gone (line
\* 1769 throws): then only isFinished is set.  The locals end with the call.
SendMessageDone ==
  /\ chat.pc = "streaming"
  /\ chat' = [chat EXCEPT !.pc = "idle", !.fullText = <<>>, !.currentSectionIndex = 0,
                          !.received = 0, !.msg.isFinished = TRUE, !.sentFor = NotSent]
  /\ documentData' =
       IF activeSectionId # Null /\ chat.currentSectionIndex > 0
          /\ chat.currentSectionIndex <= Len(documentData)
       THEN IF Truthy(chat.msg.content)
            THEN syncSubSectionsToOutline(
                   [documentData EXCEPT ![chat.currentSectionIndex].status = "completed"],
                   activeSectionId, chat.msg.content, now)
            ELSE [documentData EXCEPT ![chat.currentSectionIndex].status = "completed"]
       ELSE documentData
  /\ isGenerating' = FALSE
  /\ writingSectionId' = Null
  /\ UNCHANGED <<activeSectionId, now, OtherVarsChat>>

\* reading the stream fails and the flag stays as it is
SendMessageAbortedFlagKept ==
  /\ chat.pc = "streaming"
  /\ chat' = [chat EXCEPT !.pc = "idle", !.fullText = <<>>, !.currentSectionIndex = 0,
                          !.received = 0, !.sentFor = NotSent]
  /\ writingSectionId' = Null
  /\ UNCHANGED <<documentData, activeSectionId, isGenerating, now, OtherVarsChat>>
\* lines 1557 and 1782-1789: reading the stream fails
SendMessageAborted ==
  /\ chat.pc = "streaming"
  /\ chat' = [chat EXCEPT !.pc = "idle", !.fullText = <<>>, !.currentSectionIndex = 0,
                          !.received = 0, !.sentFor = NotSent]
  /\ isGenerating' = FALSE
  /\ writingSectionId' = Null
  /\ UNCHANGED <<documentData, activeSectionId, now, OtherVarsChat>>

\* lines 358-365: a click in the tree selects a section or clears the selection
onTreeSelect ==
  /\ \E key \in {documentData[i].id : i \in 1..Len(documentData)} \cup {Null} :
       /\ key # activeSectionId
       /\ activeSectionId' = key
  /\ UNCHANGED <<documentData, isGenerating, now, chat, OtherVarsDoc>>

\* lines 82-89: the first section of every normalized title
RECURSIVE dedupByTitle(_, _)
dedupByTitle(outline, seenTitles) ==
  IF Len(outline) = 0 THEN <<>>
  ELSE IF getNormalizedTitle(Head(outline).title) \in seenTitles
  THEN dedupByTitle(Tail(outline), seenTitles)
  ELSE <<Head(outline)>>
       \o dedupByTitle(Tail(outline), seenTitles \cup {getNormalizedTitle(Head(outline).title)})

\* lines 81-108: the outline of the stored metadata becomes the document
loadOutline(doc, outline) ==
  Bind(dedupByTitle(outline, {}), LAMBDA unique :
    Bind([s \in 1..Len(unique) |->
            Bind(IF findIndex(doc, unique[s].id) > 0
                 THEN doc[findIndex(doc, unique[s].id)].content ELSE <<>>,
                 LAMBDA existingContent :
                   [id |-> unique[s].id, parentId |-> unique[s].parentId,
                    title |-> unique[s].title,
                    content |-> IF Truthy(unique[s].content) THEN unique[s].content
                                ELSE existingContent,
                    status |-> IF unique[s].status # "" THEN unique[s].status
                               ELSE IF Truthy(unique[s].content) \/ Truthy(existingContent)
                               THEN "completed" ELSE "pending"])],
         LAMBDA rawOutline :
           IF \E i \in 1..Len(rawOutline) : rawOutline[i].parentId # Undefined
           THEN rawOutline ELSE reconstructHierarchy(rawOutline)))

\* lines 2310-2317: the outline saveDocument stores
savedOutline(doc) ==
  [i \in 1..Len(doc) |->
     [id |-> doc[i].id, title |-> doc[i].title, status |-> doc[i].status,
      parentId |-> IF Truthy(doc[i].parentId) THEN doc[i].parentId ELSE Null,
      content |-> Undefined]]

\* lines 50-131 and 134-143: the stored outline, if there is one, is loaded
\* (outline is empty when there is none or the call fails); the stored text
\* is empty or not delivered
fetchDeliverableInfo(doc, outline) ==
  IF Len(outline) = 0 THEN doc ELSE loadOutline(doc, outline)

S1 == <<"s", "1">>
S2 == <<"s", "2">>
S3 == <<"s", "3">>
TitleOverview == <<"1", ".", " ", "zong", "lan">>                 \* 1. (overview)
TitleGoals == <<"2", ".", " ", "mu", "biao">>                     \* 2. (goals)
TitleBackground == <<"1", ".", "1", " ", "bei", "jing">>          \* 1.1 (background)

\* what the server holds when the page opens: outlines with and without
\* parent links
StoredOutlines ==
  { <<[id |-> S1, title |-> TitleOverview, status |-> "pending", parentId |-> Null,
       content |-> Undefined],
      [id |-> S2, title |-> TitleGoals, status |-> "", parentId |-> Null,
       content |-> Undefined]>>,
    <<[id |-> S2, title |-> TitleBackground, status |-> "", parentId |-> Undefined,
       content |-> Undefined],
      [id |-> S1, title |-> TitleOverview, status |-> "", parentId |-> Undefined,
       content |-> Undefined],
      [id |-> S3, title |-> <<"Z", "o", "n", "g", " ", "l", "a", "n">>, status |-> "",
       parentId |-> Undefined, content |-> Undefined]>> }

\* line 50, at mount: the page opens on the stored deliverable
FetchDeliverableInfoFrom(stored) ==
  /\ ~isGenerating /\ chat.sent = 0 /\ documentData = <<>>
  /\ \E outline \in stored :
       documentData' = fetchDeliverableInfo(documentData, outline)
  /\ UNCHANGED <<activeSectionId, isGenerating, now, chat, OtherVarsDoc>>
FetchDeliverableInfo == FetchDeliverableInfoFrom(StoredOutlines)

\* what smartParseJson returns at line 778
GeneratedOutlines ==
  { <<[id |-> S1, title |-> TitleOverview,
       children |-> <<[id |-> S2, title |-> TitleBackground, children |-> <<>>]>>]>>,
    <<[id |-> S1, title |-> TitleOverview, children |-> <<>>],
      [id |-> S2, title |-> <<"2", ".", " ", "zong", "lan">>, children |-> <<>>]>> }

\* lines 545-856: generateOutline, confirmed by the user.  The outline
\* decodes (lines 778-800), or it does not (lines 817, 822), or the request
\* fails (line 824); then the first section is selected, the document saved
\* and the stored outline loaded again (lines 836-848).
GenerateOutline ==
  /\ ~isGenerating /\ chat.pc = "idle"
  /\ \E generated \in {LoadedOutline(parseNestedOutline(parsedOutline)) :
                          parsedOutline \in GeneratedOutlines} \cup {<<>>, documentData} :
       \E reloaded \in BOOLEAN :
         /\ documentData' =
              IF reloaded THEN fetchDeliverableInfo(generated, savedOutline(generated))
              ELSE generated
         /\ activeSectionId' =
              IF Len(generated) > 0 /\ activeSectionId = Null THEN generated[1].id
              ELSE activeSectionId
  /\ UNCHANGED <<isGenerating, now, chat, OtherVarsDoc>>

-----------------------------------------------------------------------------
(* Word budgets, App.vue:206-239 *)

Min(a, b) == IF a < b THEN a ELSE b
Max(a, b) == IF a > b THEN a ELSE b

\* lines 210-215: the table of the largest budgets; 0 stands for the
\* undefined a level outside the table gives
maxWords(level) ==
  CASE level = 1 -> 150000 [] level = 2 -> 80000 [] level = 3 -> 20000
    [] level = 4 -> 15000 [] OTHER -> 0
\* line 217
minWords == 50
\* line 220: maxWords[item.level] || maxWords[4]
levelMax(level) == IF maxWords(level) # 0 THEN maxWords(level) ELSE maxWords(4)
\* lines 225-228: the caps of the corrected budgets, twice as large
defaultWordsDoubled(level) ==
  CASE level = 1 -> 200000 [] level = 2 -> 100000 [] level = 3 -> 20000 [] OTHER -> 10000
\* lines 225-228: the caps of the corrected budgets
defaultWords(level) ==
  CASE level = 1 -> 100000 [] level = 2 -> 50000 [] level = 3 -> 10000 [] OTHER -> 5000
\* lines 221-229: item.targetWords once the item is visited
fixedTargetWords(item) ==
  IF item.targetWords > levelMax(item.level) \/ item.targetWords < minWords
  THEN Max(minWords, Min(defaultWords(item.level), item.targetWords))
  ELSE item.targetWords
\* lines 206-239
RECURSIVE validateAndFixTargetWords(_)
validateAndFixTargetWords(items) ==
  [i \in 1..Len(items) |->
     [items[i] EXCEPT !.targetWords = fixedTargetWords(items[i]),
                      !.children = validateAndFixTargetWords(@)]]

\* part_002:790: the decoded outline is validated in place
ValidateTargetWords ==
  /\ nested' = validateAndFixTargetWords(nested)
  /\ UNCHANGED <<documentData, activeSectionId, isGenerating, now, chat,
                 rep, parseIn, callStack, parseOut, flat, OtherOps>>

-----------------------------------------------------------------------------
(* Pagination, part_002:2049-2172.  Lengths are in half pixels. *)

\* line 2051: 1122.5 px
PAGE_HEIGHT_PX == 2245
\* line 2052: 40 px
PAGE_GAP_PX == 80
\* Math.ceil(a / b) for a >= 0 and b > 0
Ceil(a, b) == (a + b - 1) \div b
\* line 2160
pageCountOf(height) == Max(1, Ceil(height, PAGE_HEIGHT_PX + PAGE_GAP_PX))

\* the heights the content view takes: every 50 px, and around the height of
\* a sheet and around that of a sheet and its gap
OnePx == 2
MaxHeightSteps == 50
Heights ==
  {100 * i : i \in 0..MaxHeightSteps}
  \cup {PAGE_HEIGHT_PX - OnePx, PAGE_HEIGHT_PX, PAGE_HEIGHT_PX + OnePx,
        PAGE_HEIGHT_PX + PAGE_GAP_PX, PAGE_HEIGHT_PX + PAGE_GAP_PX + OnePx}

\* the content or an image changes the layout; the handlers of lines
\* 2165-2179 have not run yet
Reflow ==
  /\ \E height \in Heights : offsetHeight' = height
  /\ UNCHANGED <<documentData, activeSectionId, isGenerating, now, chat, OtherVarsJson,
                 generation, handling, pageCount, extraction, reader, kb,
                 writingSectionId>>
\* lines 2150-2162: optimizePageBreaks moves the sections, which gives the
\* view its final height, and the pages are counted on the next tick
updatePageCount ==
  /\ \E height \in Heights :
       /\ offsetHeight' = height
       /\ pageCount' = pageCountOf(height)
  /\ UNCHANGED <<documentData, activeSectionId, isGenerating, now, chat, OtherVarsJson,
                 generation, handling, extraction, reader, kb,
                 writingSectionId>>

-----------------------------------------------------------------------------
(* Extraction of deliverables, ProjectDetail.vue:288-334 *)

\* line 326: the delay of setTimeout, in ms
RetryDelay == 2000
\* line 324: retryCount <= 3
canRetryInclusive(retryCount) == retryCount <= 3
\* line 324: retryCount < 3
canRetry(retryCount) == retryCount < 3

ExtractionIdle ==
  [pc |-> "idle", retryCount |-> 0, due |-> 0, calls |-> 0, reported |-> FALSE,
   extracted |-> FALSE]

\* lines 202 and 255: a file is ready and its deliverables are extracted
processDeliverableExtraction ==
  /\ extraction.pc = "idle"
  /\ extraction' = [extraction EXCEPT !.pc = "calling", !.calls = 1]
  /\ UNCHANGED <<documentData, activeSectionId, isGenerating, now, chat, OtherVarsJson,
                 generation, handling, offsetHeight, pageCount, reader, kb,
                 writingSectionId>>
\* lines 293-320: the call answers; only code 200 brings deliverables
ExtractionAnswered ==
  /\ extraction.pc = "calling"
  /\ \E code \in {200, 500} :
       extraction' = [extraction EXCEPT !.pc = "done", !.extracted = (code = 200)]
  /\ UNCHANGED <<documentData, activeSectionId, isGenerating, now, chat, OtherVarsJson,
                 generation, handling, offsetHeight, pageCount, reader, kb,
                 writingSectionId>>
\* lines 321-329: the call is rejected, or its answer of code 200 carries no
\* data for line 295; it is scheduled again or given up
ExtractionFailed ==
  /\ extraction.pc = "calling"
  /\ extraction' =
       IF canRetry(extraction.retryCount)
       THEN [extraction EXCEPT !.pc = "waiting", !.due = now + RetryDelay]
       ELSE [extraction EXCEPT !.pc = "stopped", !.reported = TRUE]
  /\ UNCHANGED <<documentData, activeSectionId, isGenerating, now, chat, OtherVarsJson,
                 generation, handling, offsetHeight, pageCount, reader, kb,
                 writingSectionId>>
\* line 326: the timer fires and calls again with retryCount + 1
ExtractionRetry ==
  /\ extraction.pc = "waiting" /\ now = extraction.due
  /\ extraction' = [extraction EXCEPT !.pc = "calling", !.retryCount = @ + 1,
                                      !.calls = @ + 1]
  /\ UNCHANGED <<documentData, activeSectionId, isGenerating, now, chat, OtherVarsJson,
                 generation, handling, offsetHeight, pageCount, reader, kb,
                 writingSectionId>>
\* time passes, no further than the next timer
TickMs == 1000
MaxNow == 9000
Tick ==
  /\ now < MaxNow
  /\ extraction.pc = "waiting" => now < extraction.due
  /\ now' = IF extraction.pc = "waiting" THEN Min(now + TickMs, extraction.due)
            ELSE now + TickMs
  /\ UNCHANGED <<documentData, activeSectionId, isGenerating, chat, OtherVarsJson, OtherOps>>

-----------------------------------------------------------------------------
(* The knowledge-base files of a project, ProjectDetail.vue:170-286,       *)
(* 336-353 and 419-463.  kb holds the refs of the page, the polling timer, *)
(* what the server has, and the fetchKBFiles calls suspended at an await.  *)

\* line 176: the ids of the files of the knowledge base, in the order of
\* Object.values; f0 belongs to the project when the page opens, f1 and f2
\* are what the user uploads
FileIds == <<"f0", "f1", "f2">>
pathOf(id) == CASE id = "f0" -> "p0" [] id = "f1" -> "p1" [] id = "f2" -> "p2"
\* line 265: 'pending-' + p.path
pendingId(path) == CASE path = "p1" -> "pending-p1" [] path = "p2" -> "pending-p2"
                     [] path = "p0" -> "pending-p0"
\* line 243: f.id.startsWith('pending-')
startsWithPending(id) == id \in {"pending-p0", "pending-p1", "pending-p2"}
\* what the user may upload: the name of the second file is new, or the name
\* of the file the project already has
UploadPaths == {"p1", "p2"}
FileNames ==
  { [p0 |-> "n0", p1 |-> "n1", p2 |-> n] : n \in {"n2", "n0"} }
\* how many fetchKBFiles calls are suspended at once
MaxCalls == 2
\* the calls of processDeliverableExtraction for a file are counted up to here
MaxStarted == 2

\* Array.prototype.find, lines 183 and 241: the first element that passes,
\* in a sequence of one; the empty sequence stands for undefined
find(arr, Test(_)) ==
  IF \E n \in 1..Len(arr) : Test(arr[n])
  THEN <<arr[CHOOSE n \in 1..Len(arr) : Test(arr[n]) /\ \A m \in 1..(n - 1) : ~Test(arr[m])]>>
  ELSE <<>>
\* line 196: splice(i, 1), i counted from 1; nothing is removed past the end
splice(arr, i) ==
  IF i \in 1..Len(arr) THEN SubSeq(arr, 1, i - 1) \o SubSeq(arr, i + 1, Len(arr)) ELSE arr

NoFiles == [id \in {"f0", "f1", "f2"} |-> "absent"]
KbIdle ==
  [loaded |-> FALSE, mounted |-> TRUE, names |-> [p0 |-> "n0", p1 |-> "n1", p2 |-> "n2"],
   server |-> NoFiles, kb_files |-> {}, pendingUploads |-> <<>>,
   uploadedFiles |-> <<>>, processedFiles |-> {}, isFirstLoad |-> TRUE,
   isUploading |-> FALSE, isExtracting |-> FALSE, pollingTimer |-> FALSE,
   calls |-> <<>>, started |-> [id \in {"f0", "f1", "f2"} |-> 0], uploaded |-> {}]

\* lines 175-176: the files of an answer of getDatabaseInfo
allKBFiles(all, names) ==
  Bind(SelectSeq(FileIds, LAMBDA id : all[id] # "absent"), LAMBDA ids :
    [n \in 1..Len(ids) |->
       [file_id |-> ids[n], path |-> pathOf(ids[n]), filename |-> names[pathOf(ids[n])],
        status |-> all[ids[n]]]])

\* lines 336-342
startPolling(k) == IF k.pollingTimer THEN k ELSE [k EXCEPT !.pollingTimer = TRUE]
\* lines 344-349
stopPolling(k) == IF k.pollingTimer THEN [k EXCEPT !.pollingTimer = FALSE] ELSE k

\* a call of fetchKBFiles awaiting line 174
newCall(upload) ==
  [pc |-> "info", upload |-> upload, all |-> NoFiles, i |-> 0, found |-> <<>>,
   files |-> <<>>, j |-> 0]
\* lines 281-286, and 459-460 when handleFileUpload awaited the call
endCall(k, c) ==
  [k EXCEPT !.calls = splice(@, c),
            !.isUploading = IF k.calls[c].upload THEN FALSE ELSE @]
\* lines 201-202 and 254-255, 289: processDeliverableExtraction(id, name) is
\* called, retryCount being 0
startExtraction(k, id) ==
  [k EXCEPT !.processedFiles = @ \cup {id}, !.isExtracting = TRUE,
            !.started[id] = Min(@ + 1, MaxStarted)]

\* lines 264-270
pendingDisplayFiles(pendingUploads) ==
  [n \in 1..Len(pendingUploads) |->
     [id |-> pendingId(pendingUploads[n].path), name |-> pendingUploads[n].name,
      status |-> "processing"]]
\* lines 261-280: the rows shown, and the timer started or stopped
finishFetch(k, c, a) ==
  Bind(pendingDisplayFiles(k.pendingUploads) \o a.files, LAMBDA rows :
    Bind([k EXCEPT !.isFirstLoad = FALSE, !.uploadedFiles = rows], LAMBDA k2 :
      endCall(IF \/ \E n \in 1..Len(rows) : rows[n].status \notin {"done", "error"}
                 \/ Len(k2.pendingUploads) > 0
              THEN startPolling(k2) ELSE stopPolling(k2), c)))

\* lines 241-247
wasNotDone(uploadedFiles, file) ==
  Bind(find(uploadedFiles,
            LAMBDA f : f.id = file.id \/ (startsWithPending(f.id) /\ f.name = file.name)),
       LAMBDA oldFile : oldFile = <<>> \/ oldFile[1].status # "done")

RECURSIVE statusLoop(_, _, _)
\* lines 239-258, from the file at a.j on
statusLoop(k, c, a) ==
  IF a.j > Len(a.files) THEN finishFetch(k, c, a)
  ELSE IF /\ a.files[a.j].status = "done"
          /\ a.files[a.j].id \notin k.processedFiles
          /\ wasNotDone(k.uploadedFiles, a.files[a.j])
          /\ ~k.isFirstLoad
       THEN [startExtraction(k, a.files[a.j].id) EXCEPT
               !.calls[c] = [a EXCEPT !.pc = "extractStatus"]]
       ELSE statusLoop(k, c, [a EXCEPT !.j = @ + 1])

\* lines 214-235: the files of the project; on the first load the finished
\* ones count as processed
afterPending(k, c, a) ==
  Bind(SelectSeq(allKBFiles(a.all, k.names), LAMBDA f : f.file_id \in k.kb_files),
       LAMBDA kept :
    Bind([n \in 1..Len(kept) |->
            [id |-> kept[n].file_id, name |-> kept[n].filename, status |-> kept[n].status]],
         LAMBDA files :
      statusLoop([k EXCEPT !.processedFiles =
                    IF k.isFirstLoad
                    THEN @ \cup {files[n].id : n \in {m \in 1..Len(files) :
                                                        files[m].status = "done"}}
                    ELSE @],
                 c, [a EXCEPT !.files = files, !.j = 1, !.i = 0, !.found = <<>>])))

RECURSIVE pendingLoop(_, _, _)
\* lines 181-184 and 209-210, from index a.i down (counted from 1): reading
\* an entry past the end gives undefined, and line 183 then throws into the
\* catch of line 281
pendingLoop(k, c, a) ==
  IF a.i < 1 THEN afterPending(k, c, a)
  ELSE IF a.i > Len(k.pendingUploads) THEN endCall(k, c)
  ELSE Bind(find(allKBFiles(a.all, k.names),
                 LAMBDA f : \/ f.path = k.pendingUploads[a.i].path
                            \/ f.filename = k.pendingUploads[a.i].name),
            LAMBDA foundFile :
         IF foundFile = <<>> THEN pendingLoop(k, c, [a EXCEPT !.i = @ - 1])
         ELSE [k EXCEPT !.calls[c] = [a EXCEPT !.pc = "link", !.found = foundFile]])

\* lines 170-174: fetchKBFiles is called and awaits getDatabaseInfo
fetchKBFiles(k, upload) == [k EXCEPT !.calls = Append(@, newCall(upload))]
\* lines 175-181: the answer is in; the pending uploads are visited from the
\* last one
databaseInfo(k, c) ==
  pendingLoop(k, c, [k.calls[c] EXCEPT !.all = k.server, !.i = Len(k.pendingUploads)])
\* lines 189-205: linkFile answered
fileLinked(k, c) ==
  Bind(k.calls[c], LAMBDA a :
    Bind([k EXCEPT !.kb_files = @ \cup {a.found[1].file_id},
                   !.pendingUploads = splice(@, a.i)], LAMBDA k2 :
      IF a.found[1].status = "done" /\ a.found[1].file_id \notin k2.processedFiles
      THEN [startExtraction(k2, a.found[1].file_id) EXCEPT
              !.calls[c] = [a EXCEPT !.pc = "extractPending"]]
      ELSE pendingLoop(k2, c, [a EXCEPT !.i = @ - 1])))
\* lines 206-210: linkFile was rejected
linkFailed(k, c) == pendingLoop(k, c, [k.calls[c] EXCEPT !.i = @ - 1])
\* lines 202 and 255, 330-332: processDeliverableExtraction returned
extractionReturned(k, c) ==
  Bind([k EXCEPT !.isExtracting = FALSE], LAMBDA k2 :
    IF k.calls[c].pc = "extractPending"
    THEN pendingLoop(k2, c, [k.calls[c] EXCEPT !.i = @ - 1])
    ELSE statusLoop(k2, c, [k.calls[c] EXCEPT !.j = @ + 1]))

OtherVarsKB ==
  <<documentData, activeSectionId, isGenerating, now, chat, OtherVarsJson,
    generation, handling, offsetHeight, pageCount, extraction, reader, writingSectionId>>

\* lines 62-82: the project is loaded and its files are fetched
fetchProjectDetail ==
  /\ ~kb.loaded /\ kb.mounted
  /\ kb' = fetchKBFiles([kb EXCEPT !.loaded = TRUE], FALSE)
  /\ UNCHANGED OtherVarsKB
\* lines 338-340: the interval of the timer has passed
PollTick ==
  /\ kb.pollingTimer /\ Len(kb.calls) < MaxCalls
  /\ kb' = fetchKBFiles(kb, FALSE)
  /\ UNCHANGED OtherVarsKB
\* lines 419-455: a file was uploaded and added to the knowledge base
handleFileUpload ==
  /\ kb.mounted /\ kb.loaded /\ ~kb.isUploading /\ ~kb.isExtracting
  /\ Len(kb.calls) < MaxCalls
  /\ \E path \in UploadPaths \ kb.uploaded :
       kb' = fetchKBFiles([kb EXCEPT !.isUploading = TRUE, !.uploaded = @ \cup {path},
                                     !.pendingUploads =
                                       Append(@, [path |-> path, name |-> kb.names[path]])],
                          TRUE)
  /\ UNCHANGED OtherVarsKB
\* the server lists an uploaded file, and later has parsed a file
ServerParse ==
  /\ \E id \in {"f0", "f1", "f2"} :
       /\ \/ kb.server[id] = "absent" /\ pathOf(id) \in kb.uploaded
          \/ kb.server[id] = "processing"
       /\ kb' = [kb EXCEPT !.server[id] = IF @ = "absent" THEN "processing" ELSE "done"]
  /\ UNCHANGED OtherVarsKB
\* line 174 answers
DatabaseInfo ==
  /\ \E c \in 1..Len(kb.calls) : kb.calls[c].pc = "info" /\ kb' = databaseInfo(kb, c)
  /\ UNCHANGED OtherVarsKB
\* line 174 is rejected: lines 281-286
DatabaseInfoFailed ==
  /\ \E c \in 1..Len(kb.calls) : kb.calls[c].pc = "info" /\ kb' = endCall(kb, c)
  /\ UNCHANGED OtherVarsKB
\* line 188 answers
FileLinked ==
  /\ \E c \in 1..Len(kb.calls) : kb.calls[c].pc = "link" /\ kb' = fileLinked(kb, c)
  /\ UNCHANGED OtherVarsKB
\* line 188 is rejected
LinkFailed ==
  /\ \E c \in 1..Len(kb.calls) : kb.calls[c].pc = "link" /\ kb' = linkFailed(kb, c)
  /\ UNCHANGED OtherVarsKB
\* lines 202 and 255 return
ExtractionReturned ==
  /\ \E c \in 1..Len(kb.calls) :
       /\ kb.calls[c].pc \in {"extractPending", "extractStatus"}
       /\ kb' = extractionReturned(kb, c)
  /\ UNCHANGED OtherVarsKB
\* lines 351-353
onBeforeUnmount ==
  /\ kb.mounted
  /\ kb' = stopPolling([kb EXCEPT !.mounted = FALSE])
  /\ UNCHANGED OtherVarsKB

-----------------------------------------------------------------------------
(* Outline generation step by step, part_002:545-856 *)

GenerationIdle == [pc |-> "idle", received |-> 0, started |-> 0]
HandlingIdle ==
  [pc |-> "idle", actionId |-> "", targetSections |-> <<>>, k |-> 0, attached |-> TRUE,
   sections |-> <<>>, fullText |-> <<>>, received |-> 0, started |-> 0]
\* no stream is read
ReaderIdle ==
  [pc |-> "idle", sent |-> <<>>, bytes |-> <<>>, buffer |-> <<>>, fullText |-> <<>>,
   decoded |-> 0, split |-> FALSE]
IdleHandlers ==
  /\ generation = GenerationIdle
  /\ handling = HandlingIdle
  /\ offsetHeight = 0
  /\ pageCount = 1
  /\ extraction = ExtractionIdle
  /\ kb = KbIdle
IdleOps == IdleHandlers /\ reader = ReaderIdle

\* The loop of handleAction works on the objects its targetSections array
\* holds.  They are the objects of documentData until documentData is given
\* other objects (lines 688, 796, 817, 820 and 103-108); from then on the
\* loop works on objects the document no longer shows: attached is false and
\* sections holds them.
Detached(h, doc) ==
  IF h.pc # "idle" /\ h.attached
  THEN [h EXCEPT !.attached = FALSE,
                 !.sections = [k \in 1..Len(h.targetSections) |-> doc[h.targetSections[k]]]]
  ELSE h

\* line 688: the documentStructure of a snapshot as the document
structureAsDocument(snapshot) ==
  [i \in 1..Len(snapshot) |->
     [id |-> snapshot[i].id, title |-> snapshot[i].title, content |-> snapshot[i].content,
      status |-> snapshot[i].status, parentId |-> Undefined]]

\* how many operations the user starts
MaxOperations == 2
OperationsStarted == chat.sent + generation.started + handling.started

\* lines 545-567 and 576: the button is pressed.  With an outline on the
\* page the handler asks for confirmation and stands at await Modal.confirm
\* (line 552); what the dialog returns and when is the library's matter:
\* the handler goes on at once or when the user has answered.
generateOutline ==
  /\ ~isGenerating /\ generation.pc = "idle" /\ OperationsStarted < MaxOperations
  /\ \E waits \in BOOLEAN :
       IF Len(documentData) > 0 /\ waits
       THEN /\ generation' = [generation EXCEPT !.pc = "confirming", !.started = @ + 1]
            /\ UNCHANGED isGenerating
       ELSE /\ generation' = [generation EXCEPT !.pc = "requesting", !.received = 0,
                                                !.started = @ + 1]
            /\ isGenerating' = TRUE
  /\ UNCHANGED <<documentData, activeSectionId, now, chat, OtherVarsJson,
                 handling, offsetHeight, pageCount, extraction, reader, kb,
                 writingSectionId>>
\* lines 560-563: the user cancels
ConfirmCancel ==
  /\ generation.pc = "confirming"
  /\ generation' = [generation EXCEPT !.pc = "idle"]
  /\ UNCHANGED <<documentData, activeSectionId, isGenerating, now, chat, OtherVarsJson,
                 handling, offsetHeight, pageCount, extraction, reader, kb,
                 writingSectionId>>
\* lines 566 and 576: the user confirms and executeGenerateOutline starts
ConfirmOk ==
  /\ generation.pc = "confirming"
  /\ generation' = [generation EXCEPT !.pc = "requesting", !.received = 0]
  /\ isGenerating' = TRUE
  /\ UNCHANGED <<documentData, activeSectionId, now, chat, OtherVarsJson,
                 handling, offsetHeight, pageCount, extraction, reader, kb,
                 writingSectionId>>

\* lines 829-853: with the outline shown, the first section is selected if
\* none is, the document is saved and the stored outline loaded again (or
\* that request fails), and the operation is over
executeEnds(shown, replaced) ==
  /\ \E reloaded \in BOOLEAN :
       /\ documentData' = IF reloaded THEN fetchDeliverableInfo(shown, savedOutline(shown))
                          ELSE shown
       /\ handling' = IF replaced \/ (reloaded /\ Len(shown) > 0)
                      THEN Detached(handling, documentData) ELSE handling
  /\ activeSectionId' = IF Len(shown) > 0 /\ activeSectionId = Null THEN shown[1].id
                        ELSE activeSectionId
  /\ isGenerating' = FALSE
  /\ generation' = [generation EXCEPT !.pc = "idle", !.received = 0]
  /\ UNCHANGED <<now, chat, OtherVarsJson, offsetHeight, pageCount, extraction, reader, kb,
                 writingSectionId>>
\* lines 592 and 823-826: the request is rejected
OutlineRequestFailed ==
  /\ generation.pc = "requesting"
  /\ executeEnds(documentData, FALSE)
\* lines 662-663 and 819-821: the response comes; when it is not ok there is
\* no text to decode and the outline is emptied
OutlineResponse ==
  /\ generation.pc = "requesting"
  /\ \E ok \in BOOLEAN :
       IF ok
       THEN /\ generation' = [generation EXCEPT !.pc = "streaming"]
            /\ UNCHANGED <<documentData, activeSectionId, isGenerating, now, chat,
                           OtherVarsJson, handling, offsetHeight, pageCount, extraction, reader, kb,
                 writingSectionId>>
       ELSE executeEnds(<<>>, TRUE)
\* lines 668-702: a record of the stream; a snapshot becomes the document
OutlineRecord(pool, limit) ==
  /\ generation.pc = "streaming" /\ generation.received < limit
  /\ \E record \in pool :
       /\ documentData' = IF record.hasSnapshot THEN structureAsDocument(record.snapshot)
                          ELSE documentData
       /\ handling' = IF record.hasSnapshot THEN Detached(handling, documentData)
                      ELSE handling
  /\ generation' = [generation EXCEPT !.received = @ + 1]
  /\ UNCHANGED <<activeSectionId, isGenerating, now, chat, OtherVarsJson,
                 offsetHeight, pageCount, extraction, reader, kb,
                 writingSectionId>>
\* lines 669 and 823-826: reading the stream fails
OutlineReadError ==
  /\ generation.pc = "streaming"
  /\ executeEnds(documentData, FALSE)
\* lines 670 and 719-821: the stream ends and its text is decoded into an
\* outline, or into none
OutlineDone ==
  /\ generation.pc = "streaming"
  /\ \E shown \in {LoadedOutline(parseNestedOutline(parsedOutline)) :
                     parsedOutline \in GeneratedOutlines} \cup {<<>>} :
       executeEnds(shown, TRUE)

-----------------------------------------------------------------------------
(* Draft and polish, part_002:866-1399 *)

\* lines 873-887
isActionDisabled(actionId) ==
  \/ isGenerating
  \/ actionId = "draft" /\ Len(documentData) = 0
  \/ actionId = "polish" /\ ~\E i \in 1..Len(documentData) :
                               Truthy(documentData[i].content)
                               /\ Len(trim(documentData[i].content)) > 0

\* The handler works on st = [doc, h, writing]: documentData, its own
\* position and writingSectionId.
\* the object the loop stands on, section of lines 974 and 1205
sectionOf(st) ==
  IF st.h.attached THEN st.doc[st.h.targetSections[st.h.k]] ELSE st.h.sections[st.h.k]
\* an assignment to section.status
setStatus(st, status) ==
  IF st.h.attached THEN [st EXCEPT !.doc[st.h.targetSections[st.h.k]].status = status]
  ELSE [st EXCEPT !.h.sections[st.h.k].status = status]
\* an assignment to section.content
setContent(st, content) ==
  IF st.h.attached THEN [st EXCEPT !.doc[st.h.targetSections[st.h.k]].content = content]
  ELSE [st EXCEPT !.h.sections[st.h.k].content = content]

\* lines 974-976 and 1205-1215: the loop comes to its k-th section; polish
\* passes the sections without content; the section is marked as being
\* written and the request goes out.  After the last section the handler
\* leaves the loop.
RECURSIVE startSection(_)
startSection(st) ==
  IF st.h.k > Len(st.h.targetSections) THEN [st EXCEPT !.h.pc = "saving"]
  ELSE IF st.h.actionId = "polish"
          /\ ~(Truthy(sectionOf(st).content) /\ Len(trim(sectionOf(st).content)) > 0)
  THEN startSection([st EXCEPT !.h.k = @ + 1])
  ELSE [setStatus(st, "writing") EXCEPT !.h.pc = "requesting", !.h.fullText = <<>>,
                                        !.h.received = 0, !.writing = sectionOf(st).id]
\* lines 1166 and 1375: the loop goes on to the next section
nextSection(st) == startSection([st EXCEPT !.h.k = @ + 1])

\* lines 1176-1180, 1385-1389 and 1395-1398: out of the loop the document is
\* saved and the stored outline loaded again (or that request fails); then
\* the operation is over
handleActionStep(st, generating) ==
  IF st.h.pc = "saving"
  THEN /\ \E reloaded \in BOOLEAN :
            documentData' = IF reloaded
                            THEN fetchDeliverableInfo(st.doc, savedOutline(st.doc))
                            ELSE st.doc
       /\ handling' = [HandlingIdle EXCEPT !.started = st.h.started]
       /\ isGenerating' = FALSE
       /\ writingSectionId' = Null
  ELSE /\ documentData' = st.doc
       /\ handling' = st.h
       /\ isGenerating' = generating
       /\ writingSectionId' = st.writing

\* lines 900-976 and 1186-1215: a button is pressed; the targets are the
\* selected section or all sections
handleAction ==
  /\ handling.pc = "idle" /\ OperationsStarted < MaxOperations
  /\ \E actionId \in {"draft", "polish"} :
       /\ ~isActionDisabled(actionId)
       /\ handleActionStep(startSection(
            [doc |-> documentData, writing |-> writingSectionId,
             h |-> [HandlingIdle EXCEPT
                      !.actionId = actionId, !.k = 1, !.started = handling.started + 1,
                      !.targetSections =
                         IF activeSectionId # Null
                         THEN SelectSeq([i \in 1..Len(documentData) |-> i],
                                        LAMBDA i : documentData[i].id = activeSectionId)
                         ELSE [i \in 1..Len(documentData) |-> i]]]), TRUE)
  /\ UNCHANGED <<activeSectionId, now, chat, OtherVarsJson,
                 generation, offsetHeight, pageCount, extraction, reader, kb>>

\* lines 1158-1164 and 1370-1373: the catch of the section's try
sectionFailed(st) ==
  nextSection(setStatus(st, IF st.h.actionId = "draft" THEN "pending" ELSE "completed"))
\* lines 993, 1152-1157 and 1248, 1367-1369: the request is rejected or its
\* response is not ok
ActionRequestFailed ==
  /\ handling.pc = "requesting"
  /\ handleActionStep(sectionFailed([doc |-> documentData, h |-> handling,
                                  writing |-> writingSectionId]), isGenerating)
  /\ UNCHANGED <<activeSectionId, now, chat, OtherVarsJson,
                 generation, offsetHeight, pageCount, extraction, reader, kb>>
\* lines 996-1001 and 1250-1254: the response is ok
ActionResponse ==
  /\ handling.pc = "requesting"
  /\ handling' = [handling EXCEPT !.pc = "streaming"]
  /\ UNCHANGED <<documentData, activeSectionId, isGenerating, now, chat, OtherVarsJson,
                 generation, offsetHeight, pageCount, extraction, reader, kb,
                 writingSectionId>>

\* lines 1036-1053: one section of a snapshot in the draft loop
mergeSectionDraft(doc, newSec) ==
  Bind(findIndex(doc, newSec.id), LAMBDA i :
    IF i = 0 THEN doc
    ELSE [doc EXCEPT
            ![i].content = IF newSec.content # Undefined THEN newSec.content ELSE @,
            ![i].status = IF newSec.status # "" THEN newSec.status ELSE @,
            ![i].title = IF Truthy(newSec.title) THEN newSec.title ELSE @])
\* lines 1282-1299: one section of a snapshot in the polish loop
mergeSectionPolish(doc, newSec) ==
  Bind(findIndex(doc, newSec.id), LAMBDA i :
    IF i = 0 THEN doc
    ELSE [doc EXCEPT
            ![i].content =
              IF Truthy(newSec.content) /\ (~Truthy(@) \/ Len(newSec.content) > Len(@))
              THEN newSec.content ELSE @,
            ![i].status = IF newSec.status # "" THEN newSec.status ELSE @,
            ![i].title = IF Truthy(newSec.title) THEN newSec.title ELSE @])
RECURSIVE mergeStructure(_, _, _)
mergeStructure(doc, newStructure, actionId) ==
  IF Len(newStructure) = 0 THEN doc
  ELSE mergeStructure(IF actionId = "draft" THEN mergeSectionDraft(doc, Head(newStructure))
                      ELSE mergeSectionPolish(doc, Head(newStructure)),
                      Tail(newStructure), actionId)

\* lines 1062-1065 and 1306-1309: the loop's object takes the content of the
\* first section of the document that has its id
syncSectionRef(st) ==
  Bind(findIndex(st.doc, sectionOf(st).id), LAMBDA i :
    IF i > 0 /\ Truthy(st.doc[i].content) THEN setContent(st, st.doc[i].content) ELSE st)
\* lines 1003-1090 and 1256-1320: a record of the stream: its snapshot is
\* merged into the document and its text joins fullText
ActionRecord(pool, limit) ==
  /\ handling.pc = "streaming" /\ handling.received < limit
  /\ \E record \in pool :
       \E st \in {IF record.hasSnapshot
                  THEN syncSectionRef([doc |-> mergeStructure(documentData, record.snapshot,
                                                              handling.actionId),
                                       h |-> handling])
                  ELSE [doc |-> documentData, h |-> handling]} :
         /\ documentData' = st.doc
         /\ handling' = [st.h EXCEPT !.fullText = @ \o record.text, !.received = @ + 1]
  /\ UNCHANGED <<activeSectionId, isGenerating, now, chat, OtherVarsJson,
                 generation, offsetHeight, pageCount, extraction, reader, kb,
                 writingSectionId>>
\* lines 1004 and 1158-1164, 1257 and 1370-1373: reading the stream fails
ActionReadError ==
  /\ handling.pc = "streaming"
  /\ handleActionStep(sectionFailed([doc |-> documentData, h |-> handling,
                                  writing |-> writingSectionId]), isGenerating)
  /\ UNCHANGED <<activeSectionId, now, chat, OtherVarsJson,
                 generation, offsetHeight, pageCount, extraction, reader, kb>>

\* lines 1118 and 1346: /<\/?think[^>]*>/gi
ReThinkTag ==
  Cat(<<Lit(<<"<">>), Opt(Lit(<<"/">>)), LitI(<<"t", "h", "i", "n", "k">>),
        Star(NotIn({">"})), Lit(<<">">>)>>)
\* (?:##+|#|\*\*|) of lines 1127 and 1355
ReDraftTitleMarks ==
  Alt(<<Cat(<<In({"#"}), Plus(In({"#"}))>>), In({"#"}), Lit(<<"*", "*">>), Eps>>)
\* lines 1127 and 1355
redundantPatternDraft(sectionTitle) ==
  Cat(<<Bol, Star(Ws), ReDraftTitleMarks, Star(Ws),
        Opt(Cat(<<Plus(In(Digits)), Opt(In({"."})), Star(Ws)>>)),
        LitI(sectionTitle), Star(Ws), Opt(Lit(<<"*", "*">>)), Star(In({"\n"}))>>)
\* lines 1110-1128 and 1338-1356: the body of the stream's text
streamedContent(fullText, sectionTitle) ==
  Bind(ReMatch(ReChannel(ContentOpen, ContentClose), fullText), LAMBDA contentMatch :
    trim(ReReplaceFirst(
           redundantPatternDraft(sectionTitle),
           IF contentMatch.ok THEN trim(ReGroup(contentMatch, fullText, 1))
           ELSE trim(ReReplaceAll(ReChannel(CheckOpen, CheckClose),
                       ReReplaceAll(ReChannel(SummaryOpen, SummaryClose),
                         ReReplaceAll(ReThinkTag, fullText, <<>>), <<>>), <<>>)),
           <<>>)))

\* lines 1130-1146: the draft goes to the section of the document that has
\* the id, or, when there is none, to the loop's object
draftDone(st, cleanContent) ==
  Bind(findIndex(st.doc, sectionOf(st).id), LAMBDA latest :
    IF latest > 0
    THEN [st EXCEPT !.doc[latest].content = IF Truthy(cleanContent) THEN cleanContent ELSE @,
                    !.doc[latest].status = "completed"]
    ELSE setStatus(IF Truthy(cleanContent) THEN setContent(st, cleanContent) ELSE st,
                   "completed"))
\* lines 1358-1362: the polished text goes to the loop's object
polishDone(st, polishedContent) ==
  setStatus(IF Truthy(polishedContent) THEN setContent(st, polishedContent) ELSE st,
            "completed")
\* lines 1005-1007 and 1258: the stream ends
ActionDone ==
  /\ handling.pc = "streaming"
  /\ \E st \in {[doc |-> documentData, h |-> handling, writing |-> writingSectionId]} :
       \E body \in {streamedContent(handling.fullText, sectionOf(st).title)} :
         handleActionStep(nextSection(IF handling.actionId = "draft" THEN draftDone(st, body)
                                      ELSE polishDone(st, body)), isGenerating)
  /\ UNCHANGED <<activeSectionId, now, chat, OtherVarsJson,
                 generation, offsetHeight, pageCount, extraction, reader, kb>>

-----------------------------------------------------------------------------
(* The specifications of the JSON utilities *)

\* every string of at most n characters of alphabet
StringsUpTo(alphabet, n) == UNION {[1..k -> alphabet] : k \in 0..n}

MaxRepairLen == 3
RepairAlphabet == {"[", "]", "{", "}", ",", ":", Quote, "a"}
MaxParseLen == 3
ParseAlphabet == {"[", "]", ",", Quote, "1"}

\* the unquoted-key payload: [{title:"A",targetWords:100}]
BareKeyPayload ==
  <<"[", "{", "t", "i", "t", "l", "e", ":", Quote, "A", Quote, ",",
    "t", "a", "r", "g", "e", "t", "W", "o", "r", "d", "s", ":", "1", "0", "0", "}", "]">>
\* the same with its keys quoted: [{"title":"A","targetWords":100}]
QuotedKeyPayload ==
  <<"[", "{", Quote, "t", "i", "t", "l", "e", Quote, ":", Quote, "A", Quote, ",",
    Quote, "t", "a", "r", "g", "e", "t", "W", "o", "r", "d", "s", Quote, ":", "1", "0", "0", "}", "]">>

\* longer texts of the kinds a model returns
ParsePayloads ==
  { BareKeyPayload, QuotedKeyPayload,
    <<Quote, "bq", "bq", "bq", Quote>>,                                  \* "(3 bq)"
    <<"[", Quote, "bq", "bq", "bq", "1", "bq", "bq", "bq", Quote, "]">>, \* ["(3 bq)1(3 bq)"]
    <<"{", Quote, "a", Quote, ":", "1", "}", "{", Quote, "b", Quote, ":", "1", "}">>,
    <<"[", "1", "]", " ", "o", "k">>,                                    \* [1] ok
    <<"[", "1", ",", " ", "x", "]", " ", "[", "1", "]">>,                \* [1, x] [1]
    <<"o", "k", ":", " ", "[", "1", ",", "[", "1", "]">>,                \* ok: [1,[1]
    <<"{", Quote, "a", Quote, ":", " ", "[", "1", ",", " ", "{", Quote, "b", Quote, ":", " ", Quote, "x">>,
    <<"t", "r", "u", "e">>, <<"-", "1", ".", "5", "e", "1">>,
    <<"{", "]", "x", "]">> }

Fences == {"none", "json", "plain"}
\* the text inside a fenced block, labelled json or not
Wrap(s, fence) ==
  CASE fence = "json" -> BackTicks \o <<"j", "s", "o", "n", "\n">> \o s \o <<"\n">> \o BackTicks
    [] fence = "plain" -> BackTicks \o <<"\n">> \o s \o <<"\n">> \o BackTicks
    [] OTHER -> s

IdleMain ==
  /\ documentData = <<>>
  /\ activeSectionId = Null
  /\ isGenerating = FALSE
  /\ now = 0
  /\ chat = ChatIdle
  /\ writingSectionId = Null
  /\ IdleOps
IdleRepair == rep = <<>>
IdleParse ==
  /\ parseIn = <<>>
  /\ callStack = <<>>
  /\ parseOut = Running
IdleOutline ==
  /\ nested = <<>>
  /\ flat = <<>>

\* longer texts for repairTruncatedJson
RepairPayloads ==
  { <<"[", Quote, ",", "]", Quote, "]">>,                      \* [",]"]
    <<"[", "1", ",", ",", "]">>,                               \* [1,,]
    <<"{", Quote, "a", Quote, ":", "[", "1", "]", ",", "}">>,  \* {"a":[1],}
    <<"[", "{", "}", " ", "{", "}", "]">>,                     \* [{} {}]
    <<"[", Quote, "a", BackSlash, Quote, "]", Quote>> }        \* ["a\"]"

InitRepair ==
  /\ rep \in {<<x>> : x \in StringsUpTo(RepairAlphabet, MaxRepairLen)
                              \cup ParsePayloads \cup RepairPayloads}
  /\ IdleMain /\ IdleParse /\ IdleOutline

\* repairTruncatedJson(x)
RepairOnce ==
  /\ Len(rep) = 1
  /\ rep' = Append(rep, repairTruncatedJson(rep[1]))
  /\ UNCHANGED <<documentData, activeSectionId, isGenerating, now, chat, OtherOps,
                 parseIn, callStack, parseOut, nested, flat>>

\* repairTruncatedJson(repairTruncatedJson(x))
RepairAgain ==
  /\ Len(rep) = 2
  /\ rep' = Append(rep, repairTruncatedJson(rep[2]))
  /\ UNCHANGED <<documentData, activeSectionId, isGenerating, now, chat, OtherOps,
                 parseIn, callStack, parseOut, nested, flat>>

NextRepair == RepairOnce \/ RepairAgain
SpecRepair == InitRepair /\ [][NextRepair]_vars

InitParse ==
  /\ parseIn \in [s : StringsUpTo(ParseAlphabet, MaxParseLen) \cup ParsePayloads,
                  fence : Fences, engine : Engines]
  /\ callStack = <<Frame(Wrap(parseIn.s, parseIn.fence), TRUE)>>
  /\ parseOut = Running
  /\ IdleMain /\ IdleRepair /\ IdleOutline

SpecParse == InitParse /\ [][NextParse]_vars

\* nested outlines: the forests of exactly n items over the ids
OutlineIds == {<<"a">>, <<"b">>, <<"c">>}
RECURSIVE Forests(_)
Forests(n) ==
  IF n = 0 THEN {<<>>}
  ELSE UNION {
         {<<[id |-> id, title |-> <<"T">>, children |-> kids]>> \o rest :
            id \in OutlineIds, kids \in Forests(k), rest \in Forests(n - 1 - k)} :
         k \in 0..(n - 1)}
MaxItems == 3

\* a chain n1 > n2 > ... of the given length, each item the only child of the one before
RECURSIVE Chain(_, _)
Chain(from, to) ==
  <<[id |-> <<"n", from>>, title |-> <<"T">>,
     children |-> IF from = to THEN <<>> ELSE Chain(from + 1, to)]>>
OutlinePayloads ==
  { Chain(1, MaxTreeDepth + 1), Chain(1, MaxTreeDepth + 2),
    <<[id |-> Undefined, title |-> <<"T">>, children |-> <<>>]>> }

InitOutline ==
  /\ nested \in UNION {Forests(n) : n \in 0..MaxItems} \cup OutlinePayloads
  /\ flat = <<>>
  /\ IdleMain /\ IdleRepair /\ IdleParse

SpecOutline == InitOutline /\ [][NextOutline]_vars

\* the document generator: the page opens, the user generates outlines,
\* selects sections and sends chat messages whose streams carry the records
\* of a pool
InitDoc == IdleMain /\ IdleRepair /\ IdleParse /\ IdleOutline

Heading(hashes, title) == hashes \o <<" ">> \o title \o <<"\n">>
Background == <<"bei", "jing">>
Goals == <<"mu", "biao">>
ProseA == <<"nei", "rong", "A">>
ProseB == <<"nei", "rong", "B">>
TextRecord(text) == [hasSnapshot |-> FALSE, snapshot |-> <<>>, text |-> text]
InContent(body) == TextRecord(ContentOpen \o body \o ContentClose)

\* the records of the streams that write documents: bodies with headings of
\* two and of three hashes, a body of prose and one heading, a heading in
\* bold marks, a snapshot that retitles a section and a JSON outline
DocRecords ==
  { InContent(Heading(<<"#", "#">>, Background) \o ProseA \o <<"\n">>
              \o Heading(<<"#", "#">>, Goals) \o ProseB),
    InContent(Heading(<<"#", "#", "#">>, Background) \o ProseA \o <<"\n">>
              \o Heading(<<"#", "#", "#">>, Goals) \o ProseB),
    InContent(<<"qian", "yan", "\n">> \o Heading(<<"#", "#", "#">>, Goals) \o ProseB),
    InContent(Heading(<<"#", "#", "#">>, <<"*", "*", " ">> \o Goals \o <<"*", "*">>) \o ProseB),
    [hasSnapshot |-> TRUE,
     snapshot |-> <<[id |-> S2, title |-> TitleOverview, content |-> Undefined, status |-> ""]>>,
     text |-> <<>>],
    InContent(<<"[", "{", Quote, "i", "d", Quote, ":", Quote, "a", Quote, ",",
                Quote, "t", "i", "t", "l", "e", Quote, ":", Quote, "x", Quote, "}", ",",
                "{", Quote, "i", "d", Quote, ":", Quote, "b", Quote, ",",
                Quote, "t", "i", "t", "l", "e", Quote, ":", Quote, "x", Quote, "}", "]">>) }

\* how many records a stream that writes documents carries
MaxDocRecords == 1

NextDoc ==
  \/ FetchDeliverableInfo
  \/ GenerateOutline
  \/ onTreeSelect
  \/ SendMessage
  \/ SendMessageRejected
  \/ SendMessageResponse
  \/ SendMessageRecord(DocRecords, MaxDocRecords)
  \/ SendMessageDone
  \/ SendMessageAborted
SpecDoc == InitDoc /\ [][NextDoc]_vars

\* the chunks of the streams that open and close channels
StreamRecords ==
  { TextRecord(t) :
      t \in { <<"a">>,
              ThinkOpen \o <<"a">>, ThinkClose,
              SummaryOpen \o <<"a">> \o SummaryClose \o SummaryOpen,
              SummaryClose \o SummaryOpen \o <<"b">>,
              ContentOpen \o <<"a">>, ContentClose,
              ContentOpen \o ContentClose,
              CheckOpen \o <<"a">> \o CheckClose \o CheckOpen } }
  \cup { [hasSnapshot |-> TRUE,
          snapshot |-> <<[id |-> S1, title |-> Undefined, content |-> <<"c">>, status |-> ""]>>,
          text |-> <<>>] }

\* how many chunks a stream of channels carries
MaxRecords == 2

NextStream ==
  \/ FetchDeliverableInfo
  \/ onTreeSelect
  \/ SendMessage
  \/ SendMessageRejected
  \/ SendMessageResponse
  \/ SendMessageRecord(StreamRecords, MaxRecords)
  \/ SendMessageDone
  \/ SendMessageAborted
SpecStream == InitDoc /\ [][NextStream]_vars

\* global chat, lines 1665-1670: the decoded outline goes through
\* reconstructHierarchy.  The raw outlines carry no parent links; their
\* titles are numbered in Arabic or Chinese numerals or not at all.
SectionId(i) == <<"s", ToString(i)>>
Title111 == <<"1", ".", "1", ".", "1", " ", "nei", "rong">>
Title21 == <<"2", ".", "1", " ", "qian", "yan">>
TitleChinese == <<"yi", "dunhao", "zong", "lan">>
TitlePlain == <<"qian", "yan">>
HierarchyTitles ==
  {TitleOverview, TitleBackground, Title111, Title21, TitleChinese, TitlePlain}
MaxFlat == 3
RawOutlines ==
  UNION { { [i \in 1..n |-> [id |-> SectionId(i), title |-> titles[i], content |-> <<>>,
                              status |-> "pending", parentId |-> Undefined]] :
              titles \in [1..n -> HierarchyTitles] } : n \in 1..MaxFlat }

InitHierarchy ==
  /\ flat \in {<<rawOutline>> : rawOutline \in RawOutlines}
  /\ nested = <<>>
  /\ IdleMain /\ IdleRepair /\ IdleParse
ReconstructHierarchy ==
  /\ flat # <<>> /\ documentData = <<>>
  /\ documentData' = reconstructHierarchy(flat[1])
  /\ UNCHANGED <<activeSectionId, isGenerating, now, chat, OtherVarsDoc>>
NextHierarchy == ReconstructHierarchy
SpecHierarchy == InitHierarchy /\ [][NextHierarchy]_vars

\* part_002:421-434: the heading level of a section, one more than 2 for each
\* parent the loop finds.  The loop has no bound of its own: steps is how
\* many parents it may still visit, and 0 is returned when that does not
\* suffice (with steps = Len(doc) the loop then visits a section twice and
\* never ends).
RECURSIVE getSectionLevel(_, _, _)
getSectionLevel(doc, section, steps) ==
  IF ~Truthy(section.parentId) \/ findIndex(doc, section.parentId) = 0 THEN 2
  ELSE IF steps = 0 THEN 0
  ELSE Bind(getSectionLevel(doc, doc[findIndex(doc, section.parentId)], steps - 1),
            LAMBDA level : IF level = 0 THEN 0 ELSE level + 1)

\* global chat with descriptors of any kind: ids that repeat, titles with
\* and without a number, and parent links of their own
MaxDescriptors == 2
DescriptorOutlines ==
  UNION { { [i \in 1..n |-> [id |-> ids[i], title |-> titles[i], content |-> <<>>,
                              status |-> "pending", parentId |-> parents[i]]] :
              ids \in [1..n -> {S1, S2}],
              titles \in [1..n -> {TitleOverview, TitleBackground, TitlePlain}],
              parents \in [1..n -> {Undefined, S1, S2}] } : n \in 1..MaxDescriptors }
InitDescriptors ==
  /\ flat \in {<<rawOutline>> : rawOutline \in DescriptorOutlines}
  /\ nested = <<>>
  /\ IdleMain /\ IdleRepair /\ IdleParse
SpecDescriptors == InitDescriptors /\ [][NextHierarchy]_vars

\* the decoded outlines whose budgets are validated: items of every level
\* with budgets below, at and above the limits, alone, in pairs and nested
TargetWordsValues == {49, 50, 5001, 20001, 80001, 150001, 800000}
Levels == {0, 1, 2, 3, 4}
MaxNesting == 2
RECURSIVE TargetItems(_)
TargetItems(depth) ==
  IF depth = 0 THEN {}
  ELSE {[id |-> <<"a">>, title |-> <<"T">>, level |-> level, targetWords |-> words,
         children |-> children] :
          level \in Levels, words \in TargetWordsValues,
          children \in {<<>>} \cup {<<c>> : c \in TargetItems(depth - 1)}}
InitTargetWords ==
  /\ nested \in {<<item>> : item \in TargetItems(MaxNesting)}
                \cup {<<a, b>> : a \in TargetItems(1), b \in TargetItems(1)}
  /\ flat = <<>>
  /\ IdleMain /\ IdleRepair /\ IdleParse
NextTargetWords == ValidateTargetWords
SpecTargetWords == InitTargetWords /\ [][NextTargetWords]_vars

\* the preview: the layout changes and the pages are counted
NextPage == Reflow \/ updatePageCount
SpecPage == InitDoc /\ [][NextPage]_vars

\* the extraction of the deliverables of one file, as time passes
NextExtraction ==
  \/ processDeliverableExtraction
  \/ ExtractionAnswered
  \/ ExtractionFailed
  \/ ExtractionRetry
  \/ Tick
SpecExtraction == InitDoc /\ [][NextExtraction]_vars

\* the operations on a stored document with a written section: outline
\* generation, draft, polish and chat, step by step
OpsOutlines ==
  { <<[id |-> S1, title |-> TitleOverview, status |-> "completed", parentId |-> Null,
       content |-> ProseA],
      [id |-> S2, title |-> TitleGoals, status |-> "", parentId |-> Null,
       content |-> Undefined]>> }
OpsRecords ==
  { [hasSnapshot |-> TRUE,
     snapshot |-> <<[id |-> S3, title |-> TitleBackground, content |-> Undefined,
                     status |-> ""],
                    [id |-> S2, title |-> Undefined, content |-> ProseB,
                     status |-> "completed"]>>,
     text |-> <<>>],
    InContent(ProseB) }
MaxOpsRecords == 1
SendMessageOp == OperationsStarted < MaxOperations /\ SendMessage
NextOps ==
  \/ FetchDeliverableInfoFrom(OpsOutlines)
  \/ onTreeSelect
  \/ generateOutline
  \/ ConfirmCancel
  \/ ConfirmOk
  \/ OutlineRequestFailed
  \/ OutlineResponse
  \/ OutlineRecord(OpsRecords, MaxOpsRecords)
  \/ OutlineReadError
  \/ OutlineDone
  \/ handleAction
  \/ ActionRequestFailed
  \/ ActionResponse
  \/ ActionRecord(OpsRecords, MaxOpsRecords)
  \/ ActionReadError
  \/ ActionDone
  \/ SendMessageOp
  \/ SendMessageRejected
  \/ SendMessageResponse
  \/ SendMessageRecord(OpsRecords, MaxOpsRecords)
  \/ SendMessageDone
  \/ SendMessageAborted
SpecOps == InitDoc /\ [][NextOps]_vars

\* the realtime merge alone: on a stored document it is called with any
\* section, or a section that is not there, as the parent and with any text
\* of a pool: headings of two, three and four hashes with new titles and
\* with titles the document has, prose before a heading, and prose alone
RealtimeTitles == {Background, Goals, <<"fan", "wei">>}
RealtimeBodies ==
  { Heading(hashes, title) \o ProseA :
      hashes \in {<<"#", "#">>, <<"#", "#", "#">>, <<"#", "#", "#", "#">>},
      title \in RealtimeTitles }
  \cup { Heading(<<"#", "#", "#">>, Background) \o ProseA \o <<"\n">>
           \o Heading(<<"#", "#", "#">>, <<"jie", "lun">>) \o ProseB,
         <<"qian", "yan", "\n">> \o Heading(<<"#", "#", "#">>, <<"jie", "lun">>) \o ProseB,
         ProseB }
\* part_002:1717: the merge is called while a stream is read
RealtimeMerge ==
  /\ \E parentId \in {documentData[i].id : i \in 1..Len(documentData)} \cup {S3} :
       \E fullContent \in RealtimeBodies :
         documentData' = syncSubSectionsToOutlineRealtime(documentData, parentId,
                                                          fullContent, now)
  /\ UNCHANGED <<activeSectionId, isGenerating, now, chat, OtherVarsDoc>>
NextRealtime == FetchDeliverableInfoFrom(OpsOutlines) \/ RealtimeMerge
SpecRealtime == InitDoc /\ [][NextRealtime]_vars

\* the three merges on a stored document: each is called with the first
\* root, one of its children or a section that is not there as the parent
\* (the selected section of part_002:1653, 1717, 1776), at the time of the
\* clock, which may tick between two merges.  The bodies have headings deeper than a root,
\* headings as deep as a root, the title of a root as a heading, prose before
\* a heading and prose alone; the JSON descriptors come without an id, with
\* the id of a stored section and with titles the document has
MergeBodies ==
  { Heading(<<"#", "#", "#">>, Background) \o ProseA \o <<"\n">>
      \o Heading(<<"#", "#", "#">>, <<"jie", "lun">>) \o ProseB,
    <<"qian", "yan", "\n">> \o Heading(<<"#", "#", "#">>, <<"jie", "lun">>) \o ProseB,
    Heading(<<"#", "#">>, <<"fan", "wei">>) \o ProseA,
    Heading(<<"#", "#", "#">>, <<"zong", "lan">>) \o ProseA,
    Heading(<<"#", "#", "#", "#">>, <<"xi", "jie">>) \o ProseA,
    ProseB }
JsonSections ==
  { <<[id |-> Undefined, title |-> <<"gai", "shu">>, content |-> Undefined]>>,
    <<[id |-> S1, title |-> <<"fan", "wei">>, content |-> ProseA]>>,
    <<[id |-> Undefined, title |-> Background, content |-> ProseB],
      [id |-> Undefined, title |-> Goals, content |-> Undefined]>> }
MaxMergeNow == 1
MaxMergeSections == 4
MergeParents ==
  {S1, S3} \cup {documentData[i].id : i \in {j \in 1..Len(documentData) :
                                               documentData[j].parentId = S1}}
\* part_002:1717
RealtimeMergeStep ==
  /\ Len(documentData) < MaxMergeSections
  /\ \E parentId \in MergeParents, fullContent \in MergeBodies :
       documentData' = syncSubSectionsToOutlineRealtime(documentData, parentId,
                                                        fullContent, now)
  /\ UNCHANGED <<activeSectionId, isGenerating, now, chat, OtherVarsDoc>>
\* part_002:1776
FinalMergeStep ==
  /\ Len(documentData) < MaxMergeSections
  /\ \E parentId \in MergeParents, fullContent \in MergeBodies :
       documentData' = syncSubSectionsToOutline(documentData, parentId, fullContent, now)
  /\ UNCHANGED <<activeSectionId, isGenerating, now, chat, OtherVarsDoc>>
\* part_002:1653
JsonSyncStep ==
  /\ Len(documentData) < MaxMergeSections
  /\ \E parentId \in MergeParents, sections \in JsonSections :
       documentData' = syncSubSectionsFromJson(documentData, parentId, sections, now)
  /\ UNCHANGED <<activeSectionId, isGenerating, now, chat, OtherVarsDoc>>
\* Date.now() between two merges
MergeTick ==
  /\ now < MaxMergeNow
  /\ now' = now + 1
  /\ UNCHANGED <<documentData, activeSectionId, isGenerating, chat, OtherVarsDoc>>
NextMerges ==
  \/ FetchDeliverableInfoFrom(OpsOutlines)
  \/ RealtimeMergeStep
  \/ FinalMergeStep
  \/ JsonSyncStep
  \/ MergeTick
SpecMerges == InitDoc /\ [][NextMerges]_vars
\* the merges that make sections of headings, without the JSON sync
NextHeadingMerges ==
  \/ FetchDeliverableInfoFrom(OpsOutlines)
  \/ RealtimeMergeStep
  \/ FinalMergeStep
  \/ MergeTick
SpecHeadingMerges == InitDoc /\ [][NextHeadingMerges]_vars

\* a chat answer that arrives in pieces: a section is selected before the
\* message is sent and stays selected, the body grows piece by piece, every
\* piece is followed by the realtime merge (line 1717) and the end of the
\* stream by the final merge (line 1776).  The pieces cut a heading in two,
\* bring a whole heading, and bring the heading that repeats the title of
\* the first root
ChunkRecords ==
  { TextRecord(ContentOpen \o <<"#", "#", "#", " ", "zong">>),
    TextRecord(<<"lan", "\n">> \o ProseA \o <<"\n">>),
    TextRecord(Heading(<<"#", "#", "#">>, Background) \o ProseB \o <<"\n">>),
    TextRecord(ContentOpen \o Heading(<<"#", "#", "#">>, <<"jie", "lun">>)) }
MaxChunks == 3
SelectWhileIdle == chat.pc = "idle" /\ onTreeSelect
NextChunks ==
  \/ FetchDeliverableInfoFrom(OpsOutlines)
  \/ SelectWhileIdle
  \/ SendMessage
  \/ SendMessageResponse
  \/ SendMessageRecord(ChunkRecords, MaxChunks)
  \/ SendMessageDone
SpecChunks == InitDoc /\ [][NextChunks]_vars

\* a chat answer without the body delimiter, in pieces: plain text, a
\* reasoning delimiter cut in two by the end of a piece, the end of the
\* reasoning followed by text, and a piece that opens the body
FallbackRecords ==
  { TextRecord(<<"a">>),
    TextRecord(<<"<", "t", "h", "i">>),
    TextRecord(<<"n", "k", ">", "b">>),
    TextRecord(ThinkClose \o <<"c">>),
    TextRecord(ContentOpen \o <<"d">>) }
NextFallback ==
  \/ FetchDeliverableInfoFrom(OpsOutlines)
  \/ SelectWhileIdle
  \/ SendMessage
  \/ SendMessageResponse
  \/ SendMessageRecord(FallbackRecords, MaxChunks)
  \/ SendMessageDone
SpecFallback == InitDoc /\ [][NextFallback]_vars

-----------------------------------------------------------------------------
(* src/unnamed/part_002: the read loops of handleAction (lines 1003-1104)   *)
(* and sendMessage (lines 1556-1763).  reader holds what the server sent    *)
(* (sent), what of it has not arrived yet (bytes), the loop's buffer and    *)
(* fullText, how many lines JSON.parse accepted (decoded) and whether a     *)
(* read ended inside a line (split).  A read delivers any non-empty piece   *)
(* of what has not arrived.                                                 *)

DataPrefix == <<"d", "a", "t", "a", ":", " ">>
KeyResponse == <<"r", "e", "s", "p", "o", "n", "s", "e">>
KeyMsg == <<"m", "s", "g">>
KeyAnswer == <<"a", "n", "s", "w", "e", "r">>

\* a property of a decoded object as the value it is; a value of no kind when
\* the value is no object or has no such property
JProp(v, key) ==
  IF v.t # "obj" THEN JVal("none", <<>>, <<>>)
  ELSE Bind({j \in 1..Len(v.k) : v.k[j][1] = key}, LAMBDA hits :
         IF hits = {} THEN JVal("none", <<>>, <<>>)
         ELSE v.k[CHOOSE j \in hits : TRUE][2])

\* lines 1071, 1605: data.response || (data.msg && data.msg.content) ||
\* data.content || data.answer || ''
recordContent(data) ==
  IF Truthy(JField(data, KeyResponse)) THEN JField(data, KeyResponse)
  ELSE IF Truthy(JField(JProp(data, KeyMsg), KeyContent))
  THEN JField(JProp(data, KeyMsg), KeyContent)
  ELSE IF Truthy(JField(data, KeyContent)) THEN JField(data, KeyContent)
  ELSE IF Truthy(JField(data, KeyAnswer)) THEN JField(data, KeyAnswer)
  ELSE <<>>

\* lines 1016-1025, 1565-1574: one line: blank lines are passed over, the
\* SSE prefix is cut off, JSON.parse accepts the rest or throws
lineRecord(line) ==
  Bind(trim(line), LAMBDA trimmedLine :
    IF Len(trimmedLine) = 0 THEN [ok |-> FALSE, content |-> <<>>]
    ELSE Bind(JSONparse(IF startsWith(trimmedLine, DataPrefix)
                        THEN SubSeq(trimmedLine, 7, Len(trimmedLine))
                        ELSE trimmedLine),
              LAMBDA r : IF r.ok THEN [ok |-> TRUE, content |-> recordContent(r.v)]
                         ELSE [ok |-> FALSE, content |-> <<>>]))

\* what is left of the buffer when the last line is not kept for later
popNothing(lines) == <<>>
\* lines 1013, 1562: buffer = lines.pop() || ''
pop(lines) == lines[Len(lines)]

\* lines 1011-1090, 1560-1750: one chunk: the buffer grows, its whole lines
\* are decoded one after the other, the rest waits for the next chunk
readChunk(r, value) ==
  Bind(SplitOn(r.buffer \o value, "\n"), LAMBDA lines :
    [r EXCEPT !.buffer = pop(lines),
              !.fullText = @ \o Flatten([i \in 1..(Len(lines) - 1) |->
                                           lineRecord(lines[i]).content]),
              !.decoded = @ + Cardinality({i \in 1..(Len(lines) - 1) :
                                             lineRecord(lines[i]).ok})])

\* lines 1093-1104, 1752-1763: what the stream left without a line end
readRest(r) ==
  IF Len(trim(r.buffer)) = 0 THEN r
  ELSE [r EXCEPT !.fullText = @ \o lineRecord(r.buffer).content,
                 !.decoded = @ + (IF lineRecord(r.buffer).ok THEN 1 ELSE 0)]

OtherVarsReader ==
  <<documentData, activeSectionId, isGenerating, now, chat, OtherVarsJson,
    generation, handling, offsetHeight, pageCount, extraction, writingSectionId, kb>>

\* lines 1004-1013, 1557-1562: reader.read() delivers a chunk
ReaderRead ==
  /\ reader.pc = "reading" /\ Len(reader.bytes) > 0
  /\ \E n \in 1..Len(reader.bytes) :
       \E r \in {readChunk(reader, SubSeq(reader.bytes, 1, n))} :
         reader' = [r EXCEPT !.bytes = SubSeq(reader.bytes, n + 1, Len(reader.bytes)),
                             !.split = @ \/ (Len(r.buffer) > 0 /\ n < Len(reader.bytes))]
  /\ UNCHANGED OtherVarsReader
\* lines 1005-1008, 1558 and 1093-1104, 1752-1763: reader.read() reports the end
ReaderDone ==
  /\ reader.pc = "reading" /\ Len(reader.bytes) = 0
  /\ reader' = [readRest(reader) EXCEPT !.pc = "done"]
  /\ UNCHANGED OtherVarsReader

\* the lines a server sends: a record with the SSE prefix, a record without
\* it, a record with the text in msg.content, and a line that does not decode
LineA ==
  <<"d", "a", "t", "a", ":", " ", "{", Quote, "c", "o", "n", "t", "e", "n", "t", Quote,
    ":", Quote, "a", Quote, "}">>
LineB ==
  <<"{", Quote, "r", "e", "s", "p", "o", "n", "s", "e", Quote, ":", Quote, "b", Quote, "}">>
LineMsg ==
  <<"{", Quote, "m", "s", "g", Quote, ":", "{", Quote, "c", "o", "n", "t", "e", "n", "t",
    Quote, ":", Quote, "c", Quote, "}", "}">>
LineBad ==
  <<"d", "a", "t", "a", ":", " ", "{", Quote, "c", "o", "n">>
\* what the server sends: records that end with a line end, a last record
\* without one, a blank line between two records, an undecodable line
ByteStreams ==
  { LineA \o <<"\n">> \o LineB \o <<"\n">>,
    LineA \o <<"\n">> \o LineB,
    LineBad \o <<"\n">> \o LineA \o <<"\n">>,
    LineMsg \o <<"\n", "\n">> \o LineB \o <<"\n">> }
InitReader ==
  /\ documentData = <<>> /\ activeSectionId = Null /\ isGenerating = FALSE
  /\ now = 0 /\ chat = ChatIdle /\ writingSectionId = Null
  /\ IdleHandlers /\ IdleRepair /\ IdleParse /\ IdleOutline
  /\ reader \in {[ReaderIdle EXCEPT !.pc = "reading", !.sent = bytes, !.bytes = bytes] :
                   bytes \in ByteStreams}
NextReader == ReaderRead \/ ReaderDone
SpecReader == InitReader /\ [][NextReader]_vars

-----------------------------------------------------------------------------
(* Claims about the JSON utilities *)

\* C5: repairTruncatedJson is idempotent: for every input x,
\* repairTruncatedJson(repairTruncatedJson(x)) = repairTruncatedJson(x).
C5_RepairIdempotent == Len(rep) = 3 => rep[3] = rep[2]

\* C6: repairTruncatedJson is a no-op on valid input: when JSON.parse accepts x,
\* repairTruncatedJson(x) decodes to the value x decodes to.
C6_RepairKeepsValidJson ==
  (Len(rep) >= 2 /\ JSONparse(rep[1]).ok) =>
    (JSONparse(rep[2]).ok /\ JSONparse(rep[2]).v = JSONparse(rep[1]).v)

ParseDone == callStack = <<>> /\ parseOut.kind # "none"

\* C7: for every s that decodes as JSON, smartParseJson of s, of s in a json
\* fence and of s in a plain fence all return JSON.parse(s).
C7_FenceIndependent ==
  (ParseDone /\ JSONparse(parseIn.s).ok) => parseOut = Returned(JSONparse(parseIn.s).v)

FrameRank(f) ==
  LET b == Len(f.str) * Len(f.str)
  IN CASE f.pc = "enter" -> b + 6
       [] f.pc = "repair" -> b + 5
       [] f.pc = "position" -> b + 4
       [] f.pc = "prefix" -> b + 3
       [] f.pc = "extract" -> b + 2 - f.idx
\* the caller's rank outweighs anything its prefix call, on a shorter text, has left
ParseRank ==
  IF Len(callStack) = 0 THEN 0
  ELSE FrameRank(callStack[1]) * (Len(callStack[1].str) * Len(callStack[1].str) + 7)
       + (IF Len(callStack) >= 2 THEN FrameRank(callStack[2]) ELSE 0)

\* some activation is running and its next statement can execute: only a
\* caller whose prefix call has not come back has to wait, and it is never on top
ParseCanStep ==
  /\ Len(callStack) > 0
  /\ Top.pc \in {"enter", "repair", "position", "prefix", "extract"}
  /\ Top.pc = "prefix" => Top.ret.kind # "none"

\* C9: smartParseJson terminates on every input, returning or throwing: every
\* step lowers a natural-number rank and only a finished call has no step; the
\* prefix call is entered at most once per call, in non-repairing mode, so it
\* never calls again.
C9_ParseTerminates ==
  /\ [](Len(callStack) <= 2)
  /\ [](Len(callStack) = 2 => ~Top.attemptRepair)
  /\ [](ParseDone \/ ParseCanStep)
  /\ [](ParseRank >= 0)
  /\ [][ParseRank' < ParseRank]_vars

\* the prefix call is running
C9_Witness == Len(callStack) = 2 /\ Top.pc = "enter" /\ callStack[1].pc = "prefix"

\* the ids along the tree: what is under what, in order
RECURSIVE NestedShape(_)
NestedShape(items) ==
  [i \in 1..Len(items) |-> [key |-> items[i].id, children |-> NestedShape(items[i].children)]]
RECURSIVE TreeShape(_)
TreeShape(nodes) ==
  [i \in 1..Len(nodes) |->
     [key |-> nodes[i].key,
      children |-> IF nodes[i].isLeaf THEN <<>> ELSE TreeShape(nodes[i].children)]]
RECURSIVE NestedIds(_)
NestedIds(items) ==
  IF Len(items) = 0 THEN <<>>
  ELSE <<Head(items).id>> \o NestedIds(Head(items).children) \o NestedIds(Tail(items))
RECURSIVE NestedDepth(_)
NestedDepth(items) ==
  IF Len(items) = 0 THEN 0
  ELSE Max(1 + NestedDepth(Head(items).children), NestedDepth(Tail(items)))
OutlineShown == flat # <<>> /\ documentData = LoadedOutline(flat[1])
DistinctIds(ids) ==
  /\ \A i \in 1..Len(ids) : ids[i] # Undefined
  /\ \A i, j \in 1..Len(ids) : ids[i] = ids[j] => i = j

\* C10 as stated: for any nested outline, flattening it and re-nesting the flat
\* list by id/parentId gives a tree with the parent-child edges of the input.
C10_RenestSameEdges == OutlineShown => TreeShape(treeData) = NestedShape(nested)

\* C10 amended: every flattened item carries null (top level) or its enclosing
\* item's id as parentId, and when the ids are defined and distinct and the
\* nesting is at most MaxTreeDepth + 1 levels deep the re-nested tree has the
\* parent-child edges of the input.
C10_RenestSameEdgesWithinDepth ==
  /\ flat # <<>> =>
       \A i \in 1..Len(flat[1]) :
         \/ flat[1][i].parentId = Null
         \/ \E j \in 1..(i - 1) : flat[1][j].id = flat[1][i].parentId
  /\ (OutlineShown /\ DistinctIds(NestedIds(nested)) /\ NestedDepth(nested) <= MaxTreeDepth + 1)
       => TreeShape(treeData) = NestedShape(nested)
C10_Witness ==
  /\ OutlineShown /\ DistinctIds(NestedIds(nested))
  /\ NestedDepth(nested) = MaxTreeDepth + 1
  /\ TreeShape(treeData) = NestedShape(nested)

-----------------------------------------------------------------------------
(* Claims about the document generator *)

\* the steps of a chat stream: a record is handled, the stream ends
RecordStep == chat.pc = "streaming" /\ chat'.pc = "streaming"
DoneStep == chat.pc = "streaming" /\ chat'.pc = "idle" /\ chat'.msg.isFinished
\* the positions of doc2 whose ids doc has not, and those whose ids it has
AddedTo(doc, doc2) == {i \in 1..Len(doc2) : \A j \in 1..Len(doc) : doc[j].id # doc2[i].id}
KeptIn(doc, doc2) == {i \in 1..Len(doc2) : \E j \in 1..Len(doc) : doc[j].id = doc2[i].id}
\* the headings of a body: their titles, levels and the prose after each
HeadingTitle(text, m) == trim(ReGroup(m, text, 2))
HeadingLevel(text, m) == Len(ReGroup(m, text, 1))
HeadingProse(text, matches, i) ==
  trim(SubSeq(text, matches[i].e,
              IF i < Len(matches) THEN matches[i + 1].s - 1 ELSE Len(text)))
SameButStatus(doc, doc2) ==
  /\ Len(doc) = Len(doc2)
  /\ \A i \in 1..Len(doc) : [doc[i] EXCEPT !.status = ""] = [doc2[i] EXCEPT !.status = ""]

\* C1: in local mode no step of the stream (the realtime merge, the merge of
\* a JSON list, the final merge) adds a section whose normalized title is that
\* of a section that was in the outline and stays in it; and when every
\* heading of the finished body has the normalized title of the parent or of
\* a section that is not one of its children, the final merge leaves the
\* outline as it was.
C1_MergesAddNoDuplicate ==
  [][(chat.pc = "streaming" /\ activeSectionId # Null) =>
       /\ \A i \in AddedTo(documentData, documentData') :
            \A j \in KeptIn(documentData, documentData') :
              getNormalizedTitle(documentData'[i].title)
                # getNormalizedTitle(documentData'[j].title)
       /\ (DoneStep /\ Len(ReMatchAll(headingRegex, chat.msg.content)) > 0
           /\ \A k \in 1..Len(ReMatchAll(headingRegex, chat.msg.content)) :
                getNormalizedTitle(HeadingTitle(chat.msg.content,
                                                ReMatchAll(headingRegex, chat.msg.content)[k]))
                  \in {getNormalizedTitle(documentData[i].title) :
                         i \in {j \in 1..Len(documentData) :
                                  documentData[j].parentId # activeSectionId}})
            => SameButStatus(documentData, documentData')]_vars

TitlesUnique(doc) ==
  \A i, j \in 1..Len(doc) :
    getNormalizedTitle(doc[i].title) = getNormalizedTitle(doc[j].title) => i = j

\* C2: whenever no operation is in progress, no two sections of documentData
\* have the same normalized title.
C2_TitlesUnique == ~isGenerating => TitlesUnique(documentData)

\* the final merge on the selected top-level section whose title carries a
\* numbering prefix, for a body whose headings all satisfy levelOk
FinalMergeOn(p, levelOk(_)) ==
  /\ DoneStep /\ activeSectionId # Null
  /\ p = chat.currentSectionIndex /\ p > 0 /\ p <= Len(documentData)
  /\ documentData[p].id = activeSectionId
  /\ ~Truthy(documentData[p].parentId)
  /\ Len(getSectionNumberPrefix(documentData[p].title)) > 0
  /\ Len(ReMatchAll(headingRegex, chat.msg.content)) > 0
  /\ \A k \in 1..Len(ReMatchAll(headingRegex, chat.msg.content)) :
       levelOk(HeadingLevel(chat.msg.content, ReMatchAll(headingRegex, chat.msg.content)[k]))
\* the parent keeps the prose before the first heading and has, right after
\* it, one child per heading, numbered under the parent's prefix, with the
\* prose after its heading
SplitByHeadings(parent, text, matches, doc2) ==
  \E q \in 1..Len(doc2) :
    /\ doc2[q].id = parent.id
    /\ doc2[q].content = trim(SubSeq(text, 1, matches[1].s - 1))
    /\ {i \in 1..Len(doc2) : doc2[i].parentId = parent.id} = (q + 1)..(q + Len(matches))
    /\ \A k \in 1..Len(matches) :
         /\ doc2[q + k].title =
              getSectionNumberPrefix(parent.title) \o <<".">> \o ToDecimal(k) \o <<" ">>
              \o getNormalizedTitle(HeadingTitle(text, matches[k]))
         /\ doc2[q + k].content = HeadingProse(text, matches, k)

\* C3 as stated: the final merge on a top-level parent with numbering prefix
\* P and a body of k two-hash headings, each followed by prose, leaves the
\* prose before the first heading as the parent's content and creates the k
\* children P.1 title1 ... P.k titlek, each with the prose after its heading.
C3_TwoHashHeadingsSplit ==
  [][\A p \in 1..Len(documentData) :
       FinalMergeOn(p, LAMBDA level : level = 2)
         => SplitByHeadings(documentData[p], chat.msg.content,
                            ReMatchAll(headingRegex, chat.msg.content), documentData')]_vars

\* the headings are new: their normalized titles differ from one another,
\* from the parent's and from those of the sections that are not its children
HeadingsNew(doc, parent, text, matches) ==
  /\ \A k, l \in 1..Len(matches) :
       getNormalizedTitle(HeadingTitle(text, matches[k]))
         = getNormalizedTitle(HeadingTitle(text, matches[l])) => k = l
  /\ \A k \in 1..Len(matches) :
       getNormalizedTitle(HeadingTitle(text, matches[k]))
         \notin {getNormalizedTitle(doc[i].title) :
                   i \in {j \in 1..Len(doc) : doc[j].parentId # parent.id}}

\* C3 amended: the final merge on a top-level parent with numbering prefix P
\* and a body whose k headings have three hashes or more and are new leaves
\* the trimmed prose before the first heading as the parent's content and
\* replaces the parent's children by k children right after it, titled P.i
\* and the normalized title of the i-th heading, each with the trimmed prose
\* after its heading and completed.
C3_DeeperHeadingsSplit ==
  [][\A p \in 1..Len(documentData) :
       (/\ FinalMergeOn(p, LAMBDA level : level >= 3)
        /\ HeadingsNew(documentData, documentData[p], chat.msg.content,
                       ReMatchAll(headingRegex, chat.msg.content)))
         => /\ SplitByHeadings(documentData[p], chat.msg.content,
                               ReMatchAll(headingRegex, chat.msg.content), documentData')
            /\ \A i \in 1..Len(documentData') :
                 documentData'[i].parentId = documentData[p].id
                   => documentData'[i].status = "completed"]_vars
\* a finished stream has split the overview into 1.1 and 1.2
C3_Witness ==
  /\ chat.pc = "idle" /\ chat.msg.isFinished
  /\ \E q \in 1..Len(documentData) :
       /\ documentData[q].title = TitleOverview /\ documentData[q].status = "completed"
       /\ q + 2 <= Len(documentData)
       /\ documentData[q + 1].title = TitleBackground
       /\ documentData[q + 1].content = ProseA
       /\ documentData[q + 1].status = "completed"
       /\ documentData[q + 2].title = <<"1", ".", "2", " ">> \o Goals
       /\ documentData[q + 2].content = ProseB
       /\ documentData[q + 2].parentId = documentData[q].id

\* the first place of p in s at or after from, 0 when there is none
IndexFrom(s, p, from) ==
  IF \E i \in from..(Len(s) - Len(p) + 1) : SubSeq(s, i, i + Len(p) - 1) = p
  THEN CHOOSE i \in from..(Len(s) - Len(p) + 1) :
         /\ SubSeq(s, i, i + Len(p) - 1) = p
         /\ \A j \in from..(i - 1) : SubSeq(s, j, j + Len(p) - 1) # p
  ELSE 0
\* a channel is closed in the buffer when its closing delimiter stands after
\* its first opening delimiter; the text between the two is enclosed
Closed(s, open, close) ==
  /\ IndexFrom(s, open, 1) > 0
  /\ IndexFrom(s, close, IndexFrom(s, open, 1) + Len(open)) > 0
Enclosed(s, open, close) ==
  SubSeq(s, IndexFrom(s, open, 1) + Len(open),
         IndexFrom(s, close, IndexFrom(s, open, 1) + Len(open)) - 1)

\* C4 as stated: once the buffer of the chat stream contains the closing
\* delimiter of a channel, a later chunk leaves the value of that channel as
\* it was, and isThinking is not true after it.
C4_CloserFreezesChannel ==
  [][RecordStep =>
       /\ includes(chat.fullText, SummaryClose) => chat'.msg.summary = chat.msg.summary
       /\ includes(chat.fullText, ThinkClose) =>
            chat'.msg.thinking = chat.msg.thinking /\ ~chat'.msg.isThinking
       /\ includes(chat.fullText, CheckClose) =>
            chat'.msg.qualityCheck = chat.msg.qualityCheck
       /\ (includes(chat.fullText, ContentClose) /\ chat'.fullText # chat.fullText) =>
            chat'.msg.content = chat.msg.content]_vars

\* C4 amended: once a channel is closed in the buffer (its closing delimiter
\* stands after its first opening delimiter), every later chunk leaves the
\* channel's value at the enclosed text: summary and qualityCheck trimmed,
\* thinking as it stands, and content, after a chunk that carries text, the
\* trimmed enclosed text when that is no JSON outline; and once the buffer
\* contains the closing delimiter of the reasoning channel, isThinking is
\* false after every later chunk.
C4_ClosedChannelStays ==
  [][RecordStep =>
       /\ Closed(chat.fullText, SummaryOpen, SummaryClose) =>
            /\ chat.msg.summary = trim(Enclosed(chat.fullText, SummaryOpen, SummaryClose))
            /\ chat'.msg.summary = chat.msg.summary
       /\ Closed(chat.fullText, ThinkOpen, ThinkClose) =>
            /\ chat.msg.thinking = Enclosed(chat.fullText, ThinkOpen, ThinkClose)
            /\ chat'.msg.thinking = chat.msg.thinking
       /\ includes(chat.fullText, ThinkClose) => ~chat'.msg.isThinking
       /\ Closed(chat.fullText, CheckOpen, CheckClose) =>
            /\ chat.msg.qualityCheck = trim(Enclosed(chat.fullText, CheckOpen, CheckClose))
            /\ chat'.msg.qualityCheck = chat.msg.qualityCheck
       /\ (/\ Closed(chat.fullText, ContentOpen, ContentClose)
           /\ chat'.fullText # chat.fullText
           /\ parsedJsonOutline(trim(Enclosed(chat.fullText, ContentOpen, ContentClose))) = <<>>) =>
            chat'.msg.content = trim(Enclosed(chat.fullText, ContentOpen, ContentClose))]_vars
\* a chunk arrived after the summary was closed and an opening delimiter
\* followed it; the summary is still the enclosed text
C4_Witness ==
  /\ chat.pc = "streaming" /\ chat.received = 2
  /\ chat.fullText = SummaryOpen \o <<"a">> \o SummaryClose \o SummaryOpen \o <<"a">>
  /\ chat.msg.summary = <<"a">>

\* the prefix without its last component
ParentPrefix(prefix) ==
  SubSeq(prefix, 1,
         (CHOOSE i \in 1..Len(prefix) :
            prefix[i] = "." /\ \A j \in (i + 1)..Len(prefix) : prefix[j] # ".") - 1)
HasDot(prefix) == \E i \in 1..Len(prefix) : prefix[i] = "."

\* C11: reconstructHierarchy keeps the sections of a flat list without parent
\* links and gives a section whose prefix has several components the id of a
\* section whose prefix is the same without the last component when the list
\* has one, and null otherwise; a section whose prefix has one component gets
\* null.
C11_ParentByPrefix ==
  (flat # <<>> /\ documentData # <<>>) =>
    /\ Len(documentData) = Len(flat[1])
    /\ \A i \in 1..Len(documentData) :
         /\ \E j \in 1..Len(flat[1]) :
              flat[1][j].id = documentData[i].id /\ flat[1][j].title = documentData[i].title
         /\ HasDot(getSectionNumberPrefix(documentData[i].title)) =>
              IF \E j \in 1..Len(flat[1]) :
                   getSectionNumberPrefix(flat[1][j].title)
                     = ParentPrefix(getSectionNumberPrefix(documentData[i].title))
              THEN \E j \in 1..Len(flat[1]) :
                     /\ getSectionNumberPrefix(flat[1][j].title)
                          = ParentPrefix(getSectionNumberPrefix(documentData[i].title))
                     /\ documentData[i].parentId = flat[1][j].id
              ELSE documentData[i].parentId = Null
         /\ (Len(getSectionNumberPrefix(documentData[i].title)) > 0
             /\ ~HasDot(getSectionNumberPrefix(documentData[i].title))) =>
              documentData[i].parentId = Null
\* 1.1.1 has become the child of 1.1, and 2.1, whose parent is missing, and
\* 1.1, whose parent is missing too, are roots
C11_Witness ==
  /\ flat # <<>> /\ Len(documentData) = 3
  /\ \E i, j, k \in 1..3 :
       /\ documentData[i].title = Title111 /\ documentData[j].title = TitleBackground
       /\ documentData[i].parentId = documentData[j].id
       /\ documentData[j].parentId = Null
       /\ documentData[k].title = Title21 /\ documentData[k].parentId = Null

\* the bound of the claim: 150000 for level 1, 80000 for level 2, 20000 for
\* level 3 and 15000 otherwise
WordsBound(level) ==
  CASE level = 1 -> 150000 [] level = 2 -> 80000 [] level = 3 -> 20000 [] OTHER -> 15000
\* after is before with nothing dropped, position by position and at every
\* depth, and each budget of after is within 50 and the bound of its level
RECURSIVE ClampedFrom(_, _)
ClampedFrom(before, after) ==
  /\ Len(after) = Len(before)
  /\ \A i \in 1..Len(before) :
       /\ after[i].id = before[i].id
       /\ after[i].title = before[i].title
       /\ after[i].level = before[i].level
       /\ 50 <= after[i].targetWords
       /\ after[i].targetWords <= WordsBound(after[i].level)
       /\ (before[i].level = 2 /\ before[i].targetWords = 800000
             => after[i].targetWords <= 50000)
       /\ ClampedFrom(before[i].children, after[i].children)
\* C12: validateAndFixTargetWords keeps every item of every depth in its place
\* and leaves each numeric targetWords between 50 and the bound of the item's
\* level; a level-2 item that came with 800000 ends with at most 50000
C12_TargetWordsClamped == [][ClampedFrom(nested, nested')]_vars
\* a level-2 item cut down to 50000 whose child was raised to 50
C12_Witness ==
  /\ flat = <<>> /\ Len(nested) = 1
  /\ nested[1].level = 2 /\ nested[1].targetWords = 50000
  /\ Len(nested[1].children) = 1
  /\ nested[1].children[1].targetWords = 50

\* C13: the page count updatePageCount computes is 1 when the final height of
\* the content is exactly PAGE_HEIGHT_PX and 2 when it is one pixel more
C13_SecondPageAfterOnePixel ==
  [][updatePageCount =>
       /\ offsetHeight' = PAGE_HEIGHT_PX => pageCount' = 1
       /\ offsetHeight' = PAGE_HEIGHT_PX + OnePx => pageCount' = 2]_vars

\* an operation has its request out or reads its stream
InProgress(pc) == pc \in {"requesting", "streaming"}
OthersKept(idx) ==
  \A i \in 1..Len(documentData) :
    i # idx => \E j \in 1..Len(documentData') : documentData'[j] = documentData[i]
\* C15: a chat stream sent in local mode writes its text to the section that
\* was selected when the message was sent and to no other, whatever the user
\* selects while the chunks arrive, and at its end that section is completed
C15_StreamWritesTargetOnly ==
  [][/\ (RecordStep /\ chat.currentSectionIndex > 0 /\ chat'.fullText # chat.fullText)
          => OthersKept(chat.currentSectionIndex)
     /\ (DoneStep /\ chat.currentSectionIndex > 0)
          => /\ OthersKept(chat.currentSectionIndex)
             /\ \E j \in 1..Len(documentData') :
                  /\ documentData'[j].id = documentData[chat.currentSectionIndex].id
                  /\ documentData'[j].status = "completed"]_vars

\* a chat message that was sent ends without its answer
ChatFailed ==
  \/ chat.pc = "requesting" /\ chat'.pc = "idle"
  \/ chat.pc = "streaming" /\ chat'.pc = "idle" /\ ~chat'.msg.isFinished
\* a draft or polish request of a section ends in the section's catch
ActionFailed == ActionRequestFailed \/ ActionReadError
\* C16: when a draft, a polish or a local chat message fails (request
\* rejected, response not ok, or stream read error) before any record was
\* merged, the target section has the content it had when the operation
\* started
C16_FailureKeepsContent ==
  [][/\ (ChatFailed /\ chat.received = 0 /\ chat.sentFor.id # Null)
          => \A i \in 1..Len(documentData') :
               documentData'[i].id = chat.sentFor.id
                 => documentData'[i].content = chat.sentFor.content
     /\ (ActionFailed /\ handling.received = 0 /\ handling.attached)
          => \A i \in 1..Len(documentData') :
               documentData'[i].id = documentData[handling.targetSections[handling.k]].id
                 => documentData'[i].content
                      = documentData[handling.targetSections[handling.k]].content]_vars

\* the sections of the document after the step that have the id
StatusAfter(id) ==
  {documentData'[i].status : i \in {j \in 1..Len(documentData') : documentData'[j].id = id}}
\* C17: when the request or the stream of a draft, a polish or a local chat
\* message fails, the section it worked on is set back to pending, and no
\* section is left in status writing once no operation is in progress
C17_FailureSetsPending ==
  [][/\ (ActionFailed /\ handling.attached)
          => StatusAfter(documentData[handling.targetSections[handling.k]].id)
               \subseteq {"pending"}
     /\ (ChatFailed /\ chat.currentSectionIndex > 0
           /\ chat.currentSectionIndex <= Len(documentData))
          => StatusAfter(documentData[chat.currentSectionIndex].id) \subseteq {"pending"}
     /\ (generation'.pc = "idle" /\ handling'.pc = "idle" /\ chat'.pc = "idle")
          => \A i \in 1..Len(documentData') : documentData'[i].status # "writing"]_vars

\* C18: a failed extraction call is made again 2 seconds later, three times
\* at most; when the third retry fails too, an error is reported and no call
\* is ever scheduled again; after a call that succeeds none is scheduled
C18_RetriesBounded ==
  [][/\ extraction'.retryCount <= 3
     /\ extraction'.calls <= 4
     /\ (extraction.pc = "calling" /\ extraction'.pc = "waiting")
          => extraction.retryCount < 3 /\ extraction'.due = now + 2000
     /\ (extraction.pc = "waiting" /\ extraction'.pc = "calling")
          => /\ now = extraction.due
             /\ extraction'.retryCount = extraction.retryCount + 1
             /\ extraction'.calls = extraction.calls + 1
     /\ (extraction.pc = "calling" /\ extraction'.pc = "stopped")
          => extraction.retryCount = 3 /\ extraction'.reported
     /\ extraction.pc = "waiting" => extraction'.pc \in {"waiting", "calling"}
     /\ extraction.pc \in {"stopped", "done"} => extraction' = extraction
     /\ extraction'.reported => extraction'.pc = "stopped"]_vars
\* the call and its three retries have failed, each retry 2 seconds after
\* the failure before it, and the error is reported
C18_Witness ==
  /\ extraction.pc = "stopped" /\ extraction.reported
  /\ extraction.retryCount = 3 /\ extraction.calls = 4
  /\ now = 6000

\* a loop reads a record that carries a snapshot and no text
SnapshotStep ==
  \/ generation.pc = "streaming" /\ generation'.received = generation.received + 1
  \/ /\ handling.pc = "streaming" /\ handling'.received = handling.received + 1
     /\ handling'.fullText = handling.fullText
  \/ /\ chat.pc = "streaming" /\ chat'.received = chat.received + 1
     /\ chat'.fullText = chat.fullText
\* the ids the snapshots of the streams carry
SnapshotIds ==
  UNION {{r.snapshot[k].id : k \in 1..Len(r.snapshot)} : r \in OpsRecords}
\* C19: a snapshot record, in the outline, draft, polish and chat loops,
\* adds, removes and reorders no section and changes no field of a section
\* whose id it does not carry; of the others it changes content, status and
\* title only
C19_SnapshotKeepsSections ==
  [][SnapshotStep =>
       /\ Len(documentData') = Len(documentData)
       /\ \A i \in 1..Len(documentData) :
            /\ i <= Len(documentData') => /\ documentData'[i].id = documentData[i].id
                                          /\ documentData'[i].parentId = documentData[i].parentId
            /\ (i <= Len(documentData') /\ documentData[i].id \notin SnapshotIds)
                 => documentData'[i] = documentData[i]]_vars

\* before is a subsequence of after: its elements are in after, unchanged
\* and in the same order
RECURSIVE Embeds(_, _)
Embeds(before, after) ==
  IF Len(before) = 0 THEN TRUE
  ELSE IF Len(after) = 0 THEN FALSE
  ELSE IF Head(after) = Head(before) THEN Embeds(Tail(before), Tail(after))
  ELSE Embeds(before, Tail(after))
\* C20: syncSubSectionsToOutlineRealtime only grows the tree: on every call
\* every section of before the call is in the document afterwards with the
\* same id, parentId, title, content and status, and the sections keep their
\* relative order
C20_RealtimeOnlyGrows == [][RealtimeMerge => Embeds(documentData, documentData')]_vars
\* the realtime merge has put a sub-section under a sub-section it had put
\* under a stored section
C20_Witness ==
  \E i, j, k \in 1..Len(documentData) :
    /\ documentData[i].parentId = Null
    /\ documentData[j].parentId = documentData[i].id
    /\ documentData[j].id = subSectionId(documentData[i].id, SubTmpTag, now, 0)
    /\ documentData[k].parentId = documentData[j].id
    /\ documentData[k].status = "pending"

\* C21: once the read loop of sendMessage has finished, no channel of the
\* message is reported open: isThinking is false, also when <think> came and
\* </think> never did
C21_ChannelsClosedAtEnd ==
  (chat.pc = "idle" /\ chat.msg.isFinished) => ~chat.msg.isThinking

\* the parentId of a section is null (or missing) or the id of a section of
\* the document
ParentsPresent(doc) ==
  \A i \in 1..Len(doc) :
    \/ doc[i].parentId \in {Null, Undefined}
    \/ \E j \in 1..Len(doc) : doc[j].id = doc[i].parentId
\* C22: after every outline operation (load, reconstructHierarchy,
\* parseNestedOutline, the merges) each section's parentId is null or the id
\* of a section of documentData; the final merge, which removes the children
\* the parent had, leaves no section that refers to a removed one
C22_ParentsPresent == ParentsPresent(documentData)

\* C23: parent links form no cycle: in every outline reconstructHierarchy
\* makes of descriptors of any kind (ids that repeat, unnumbered items with a
\* parentId of their own), following parentId from any section reaches a root
\* and getSectionLevel terminates
C23_NoParentCycle ==
  \A i \in 1..Len(documentData) :
    getSectionLevel(documentData, documentData[i], Len(documentData)) # 0

\* C24: section ids are unique in documentData after any sequence of realtime
\* merges, final merges and JSON syncs, also when a JSON descriptor supplies
\* its own id and when two merges run within the same millisecond
C24_IdsUnique ==
  DistinctIds([i \in 1..Len(documentData) |-> documentData[i].id])

InFamily(s, parentId) == s.id = parentId \/ s.parentId = parentId
\* after holds before with sections of the parent put in right behind the
\* last element of before that is the parent or a child of it
PlacedAfterFamily(before, after, parentId) ==
  \E last \in 1..Len(before) :
    /\ InFamily(before[last], parentId)
    /\ \A j \in (last + 1)..Len(before) : ~InFamily(before[j], parentId)
    /\ Len(after) > Len(before)
    /\ SubSeq(after, 1, last) = SubSeq(before, 1, last)
    /\ SubSeq(after, last + 1 + Len(after) - Len(before), Len(after))
         = SubSeq(before, last + 1, Len(before))
    /\ \A k \in (last + 1)..(last + Len(after) - Len(before)) :
         after[k].parentId = parentId
\* C26: a child made by the realtime merge or by syncSubSectionsFromJson goes
\* in immediately after the last element that is the parent or one of its
\* direct children (immediately after the parent when it has none)
C26_ChildAfterLastOfFamily ==
  [][\/ documentData' = documentData
     \/ \E parentId \in MergeParents :
          PlacedAfterFamily(documentData, documentData', parentId)
     \/ ~(RealtimeMergeStep \/ JsonSyncStep)]_vars
\* a pending child stands behind a completed child of the first root and
\* before the second root
C26_Witness ==
  /\ Len(documentData) = 4
  /\ documentData[1].id = S1 /\ documentData[4].id = S2
  /\ documentData[2].parentId = S1 /\ documentData[2].status = "completed"
  /\ documentData[3].parentId = S1 /\ documentData[3].status = "pending"

Children(doc, parentId) == SelectSeq(doc, LAMBDA s : s.parentId = parentId)
\* the normalized titles of the headings of a text, in the order of the text
HeadingOrder(text) ==
  [k \in 1..Len(ReMatchAll(headingRegex, text)) |->
     getNormalizedTitle(HeadingTitle(text, ReMatchAll(headingRegex, text)[k]))]
\* the child is titled prefix.i with the title of the h-th heading, which is
\* the first heading of that title
TitledFrom(child, i, prefix, order, h) ==
  /\ child.title = prefix \o <<".">> \o ToDecimal(i) \o <<" ">> \o order[h]
  /\ \A g \in 1..(h - 1) : order[g] # order[h]
\* the children from the from-th on are numbered by their places among the
\* children and stand in the order of their headings
NumberedInOrder(children, from, prefix, order) ==
  \A i \in from..Len(children) :
    \E h \in 1..Len(order) :
      /\ TitledFrom(children[i], i, prefix, order, h)
      /\ i > from => \E g \in 1..(h - 1) : TitledFrom(children[i - 1], i - 1, prefix, order, g)
\* C27: the children a merge makes from headings stand in the order in which
\* their headings first appear in the text, and under a parent with numbering
\* prefix P the i-th child of the parent is titled P.i: the realtime merge
\* puts its children behind those the parent had, the final merge puts its
\* children in the place of those the parent had
C27_ChildrenNumberedInOrder ==
  [][\A parentId \in {id \in MergeParents :
                         Children(documentData', id) # Children(documentData, id)} :
       \A p \in {findIndex(documentData, parentId)} \ {0}, fullContent \in MergeBodies :
         /\ (/\ documentData' = syncSubSectionsToOutlineRealtime(documentData, parentId,
                                                                 fullContent, now)
             /\ documentData' # documentData) =>
              /\ Len(Children(documentData', parentId)) > Len(Children(documentData, parentId))
              /\ SubSeq(Children(documentData', parentId), 1,
                        Len(Children(documentData, parentId)))
                   = Children(documentData, parentId)
              /\ NumberedInOrder(Children(documentData', parentId),
                                 Len(Children(documentData, parentId)) + 1,
                                 getSectionNumberPrefix(documentData[p].title),
                                 HeadingOrder(fullContent))
         /\ (/\ documentData' = syncSubSectionsToOutline(documentData, parentId,
                                                         fullContent, now)
             /\ Children(documentData', parentId) # Children(documentData, parentId)) =>
              NumberedInOrder(Children(documentData', parentId), 1,
                              getSectionNumberPrefix(documentData[p].title),
                              HeadingOrder(fullContent))]_vars
\* the first root has the child 1.1 of a final merge and behind it the child
\* 1.2 of a realtime merge
C27_Witness ==
  /\ Len(Children(documentData, S1)) = 2
  /\ \A i \in 1..2 :
       SubSeq(Children(documentData, S1)[i].title, 1, 4) = <<"1", ".", ToString(i), " ">>
  /\ Children(documentData, S1)[1].status = "completed"
  /\ Children(documentData, S1)[2].status = "pending"
  /\ Children(documentData, S1)[2].content = <<>>
  /\ SubSeq(Children(documentData, S1)[2].id, 1, 11) = S1 \o SubTmpTag

\* no heading of the text is deeper than the parent's level and has a title
\* other than the parent's
NoUsableHeading(parent, text) ==
  \A k \in 1..Len(ReMatchAll(headingRegex, text)) :
    \/ HeadingLevel(text, ReMatchAll(headingRegex, text)[k]) <= parentLevel(parent)
    \/ getNormalizedTitle(HeadingTitle(text, ReMatchAll(headingRegex, text)[k]))
         = getNormalizedTitle(parent.title)
\* C28: when the final merge finds no heading strictly deeper than the
\* parent's level (or only headings with the parent's own title), the whole
\* body, trimmed, becomes the parent's content and no section is added or
\* removed; the final merge is the one at the end of a chat stream (lines
\* 1768-1778) on the section that was selected when the message was sent
C28_FallbackKeepsBody ==
  [][\A p \in {findIndex(documentData, activeSectionId)} \ {0} :
       (/\ DoneStep /\ activeSectionId = chat.sentFor.id
        /\ chat.currentSectionIndex > 0 /\ chat.currentSectionIndex <= Len(documentData)
        /\ Truthy(chat.msg.content)
        /\ NoUsableHeading(documentData[p], chat.msg.content)) =>
         /\ Len(documentData') = Len(documentData)
         /\ \A i \in 1..Len(documentData) :
              /\ documentData'[i].id = documentData[i].id
              /\ i = p => documentData'[i].content = trim(chat.msg.content)]_vars

\* the normalized titles of the headings the final merge recognizes as
\* children of the parent: deeper than the parent, not titled like the parent
\* and not like a section that is neither the parent nor one of its children
RecognizedHeadings(doc, parent, text) ==
  { HeadingOrder(text)[k] :
      k \in { l \in 1..Len(HeadingOrder(text)) :
                /\ HeadingLevel(text, ReMatchAll(headingRegex, text)[l]) > parentLevel(parent)
                /\ HeadingOrder(text)[l] # getNormalizedTitle(parent.title)
                /\ \A i \in 1..Len(doc) :
                     (doc[i].id # parent.id /\ doc[i].parentId # parent.id) =>
                       getNormalizedTitle(doc[i].title) # HeadingOrder(text)[l] } }
\* C25: after realtime merges on the growing prefixes of a section's body and
\* the final merge on the whole body, the parent has exactly one child per
\* distinct recognized heading of the body: no heading has two children, and
\* no child is left that the realtime merges made of a prefix
C25_OneChildPerHeading ==
  [][\A p \in {findIndex(documentData, activeSectionId)} \ {0} :
       (/\ DoneStep /\ activeSectionId = chat.sentFor.id
        /\ p = chat.currentSectionIndex
        /\ Truthy(chat.msg.content)) =>
         /\ Len(Children(documentData', activeSectionId))
              = Cardinality(RecognizedHeadings(documentData, documentData[p],
                                               chat.msg.content))
         /\ {getNormalizedTitle(Children(documentData', activeSectionId)[i].title) :
               i \in 1..Len(Children(documentData', activeSectionId))}
              = RecognizedHeadings(documentData, documentData[p], chat.msg.content)]_vars

\* the buffer without its reasoning, summary and self-check regions, closed
\* or still open, trimmed
WithoutRegions(text) ==
  trim(ReReplaceAll(ReChannel(CheckOpen, CheckClose),
         ReReplaceAll(ReChannel(SummaryOpen, SummaryClose),
           ReReplaceAll(ReChannel(ThinkOpen, ThinkClose), text, <<>>), <<>>), <<>>))
\* the text between <content> and </content>, or the end of the buffer
DelimitedBody(text) ==
  trim(ReGroup(ReMatch(ReChannel(ContentOpen, ContentClose), text), text, 1))
\* C29: while <content> has not appeared in the accumulated chat buffer, the
\* body channel of the message is the buffer with all reasoning, summary and
\* self-check regions removed, trimmed; once <content> has appeared the body
\* channel is the delimited region alone
C29_BodyChannel ==
  [][RecordStep =>
       IF includes(chat'.fullText, ContentOpen)
       THEN chat'.msg.content = DelimitedBody(chat'.fullText)
       ELSE chat'.msg.content = WithoutRegions(chat'.fullText)]_vars

\* the texts of the lines of all that was sent, one after the other, and how
\* many of the lines decode
TextOfLines(sent) ==
  Flatten([i \in 1..Len(SplitOn(sent, "\n")) |-> lineRecord(SplitOn(sent, "\n")[i]).content])
DecodableLines(sent) ==
  Cardinality({i \in 1..Len(SplitOn(sent, "\n")) : lineRecord(SplitOn(sent, "\n")[i]).ok})
\* C30: decoding does not depend on where the chunks end: however the bytes
\* are cut into chunks, fullText at the end of the stream is the text of the
\* lines of the whole byte sequence; a record cut by the end of a chunk is
\* decoded once, at its line end or at the end of the stream, and a line that
\* does not decode is passed over and leaves the other records as they are
C30_ChunkingIndependent ==
  reader.pc = "done" =>
    /\ reader.fullText = TextOfLines(reader.sent)
    /\ reader.decoded = DecodableLines(reader.sent)
\* the stream has ended, a chunk ended inside a record, the last record had
\* no line end, and both records were decoded
C30_Witness ==
  /\ reader.pc = "done" /\ reader.split
  /\ reader.sent = LineA \o <<"\n">> \o LineB
  /\ reader.buffer = LineB
  /\ reader.fullText = <<"a", "b">>
  /\ reader.decoded = 2

-----------------------------------------------------------------------------
(* Snapshot merges of the polish and chat loops, part_002:1279-1304 and
   1581-1593 *)

\* the snapshots of the streams: for the written section a content that is
\* shorter, one of the same length, a longer one and an empty one; for the
\* section without content none and some; one id twice, the second content
\* shorter than the first.  The records carry no text.
SnapshotOf(structure) == [hasSnapshot |-> TRUE, snapshot |-> structure, text |-> <<>>]
SnapshotRecords ==
  { SnapshotOf(<<[id |-> S1, title |-> Undefined, content |-> <<"x">>, status |-> ""]>>),
    SnapshotOf(<<[id |-> S1, title |-> Undefined, content |-> ProseB, status |-> ""]>>),
    SnapshotOf(<<[id |-> S1, title |-> Undefined, content |-> ProseA \o <<"x">>,
                  status |-> "completed"]>>),
    SnapshotOf(<<[id |-> S1, title |-> Undefined, content |-> <<>>, status |-> ""],
                 [id |-> S2, title |-> Undefined, content |-> Undefined, status |-> ""]>>),
    SnapshotOf(<<[id |-> S2, title |-> Undefined, content |-> ProseB, status |-> ""],
                 [id |-> S2, title |-> Undefined, content |-> <<"x">>, status |-> ""]>>) }
\* how many records a stream of snapshots carries
MaxSnapshots == 2
NextSnapshots ==
  \/ FetchDeliverableInfoFrom(OpsOutlines)
  \/ SelectWhileIdle
  \/ handleAction
  \/ ActionResponse
  \/ ActionRecord(SnapshotRecords, MaxSnapshots)
  \/ ActionDone
  \/ SendMessageOp
  \/ SendMessageResponse
  \/ SendMessageRecord(SnapshotRecords, MaxSnapshots)
  \/ SendMessageDone
SpecSnapshots == InitDoc /\ [][NextSnapshots]_vars

\* the length of a section's content; a section without content has none
contentLength(content) == IF Truthy(content) THEN Len(content) ELSE 0
\* the polish loop or the chat loop reads a record
PolishRecordStep ==
  /\ handling.pc = "streaming" /\ handling.actionId = "polish"
  /\ handling'.received = handling.received + 1
ChatRecordStep == chat.pc = "streaming" /\ chat'.received = chat.received + 1
\* the i-th section has after the step the content of a snapshot, which is
\* not empty and at least by more longer than what the section had
ReplacedBySnapshot(i, more) ==
  \E record \in SnapshotRecords :
    \E k \in 1..Len(record.snapshot) :
      /\ record.snapshot[k].id = documentData[i].id
      /\ record.snapshot[k].content = documentData'[i].content
      /\ Truthy(record.snapshot[k].content)
      /\ Len(record.snapshot[k].content) >= contentLength(documentData[i].content) + more
\* C31: in the polish and chat stream loops a snapshot merge never decreases
\* the length of the content of any section: the content of a section is
\* replaced by the content of the snapshot only when that content is not
\* empty and at least as long as (polish: longer than) the current content
C31_SnapshotNeverShortens ==
  [][(PolishRecordStep \/ ChatRecordStep) =>
       /\ Len(documentData') = Len(documentData)
       /\ \A i \in 1..Len(documentData) :
            /\ contentLength(documentData'[i].content)
                 >= contentLength(documentData[i].content)
            /\ documentData'[i].content # documentData[i].content
                 => ReplacedBySnapshot(i, IF PolishRecordStep THEN 1 ELSE 0)]_vars
\* the chat loop has read a snapshot whose content for the written section,
\* which is not the section of the chat, is as long as what the section had
C31_Witness ==
  /\ chat.pc = "streaming" /\ chat.received > 0
  /\ chat.currentSectionIndex # 1
  /\ Len(documentData) = 2
  /\ documentData[1].id = S1 /\ documentData[1].content = ProseB

-----------------------------------------------------------------------------
(* The order reconstructHierarchy returns, part_002:335-355 *)

\* titles with the prefixes 1, 1.1, 2 and 10, two titles without a prefix
\* and the Chinese numeral of 21 (U+4E8C U+5341 U+4E00), which the table of
\* lines 496-501 does not hold
TitleTwo == <<"2", " ", "mu", "biao">>
TitleTen == <<"1", "0", ".", " ", "jie", "lun">>
TitleAppendix == <<"fu", "lu">>
TitleTwentyOne == <<"er", "shi", "yi", "dunhao", "zong", "jie">>
OrderTitles ==
  {TitleOverview, TitleBackground, TitleTwo, TitleTen, TitlePlain, TitleAppendix, TitleTwentyOne}
MaxOrdered == 3
OrderOutlines ==
  UNION { { [i \in 1..n |-> [id |-> SectionId(i), title |-> titles[i], content |-> <<>>,
                              status |-> "pending", parentId |-> Undefined]] :
              titles \in [1..n -> OrderTitles] } : n \in 1..MaxOrdered }
InitOrdering ==
  /\ flat \in {<<rawOutline>> : rawOutline \in OrderOutlines}
  /\ nested = <<>>
  /\ IdleMain /\ IdleRepair /\ IdleParse
SpecOrdering == InitOrdering /\ [][NextHierarchy]_vars

\* the numbers of a dotted prefix
NumbersOf(prefix) ==
  [k \in 1..Len(SplitOn(prefix, ".")) |-> Number(SplitOn(prefix, ".")[k])]
\* a prefix of dotted decimal numbers
IsNumeric(prefix) ==
  Len(prefix) > 0 /\ \A k \in 1..Len(NumbersOf(prefix)) : NumbersOf(prefix)[k] # NaN
\* as is not after bs by the component-wise comparison, a sequence coming
\* before each of its extensions
RECURSIVE NotAfter(_, _)
NotAfter(as, bs) ==
  IF Len(as) = 0 THEN TRUE
  ELSE IF Len(bs) = 0 THEN FALSE
  ELSE IF Head(as) # Head(bs) THEN Head(as) < Head(bs)
  ELSE NotAfter(Tail(as), Tail(bs))
\* the position of the section in the list reconstructHierarchy was given
OriginalIndex(section) == CHOOSE i \in 1..Len(flat[1]) : flat[1][i].id = section.id
\* C32: reconstructHierarchy returns the sections ordered by component-wise
\* numeric comparison of their dotted numbering prefixes, a prefix before
\* every extension of it (1 < 1.1 < 1.2 < 2 < 10), and the sections without
\* a prefix after every section with one, in their original relative order
C32_OrderedByPrefix ==
  (flat # <<>> /\ documentData # <<>>) =>
    \A i, j \in 1..Len(documentData) :
      i < j =>
        Bind(<<getSectionNumberPrefix(documentData[i].title),
               getSectionNumberPrefix(documentData[j].title)>>, LAMBDA p :
          /\ Len(p[1]) = 0 => Len(p[2]) = 0
          /\ (Len(p[1]) = 0 /\ Len(p[2]) = 0)
               => OriginalIndex(documentData[i]) < OriginalIndex(documentData[j])
          /\ (IsNumeric(p[1]) /\ IsNumeric(p[2]))
               => NotAfter(NumbersOf(p[1]), NumbersOf(p[2])))

-----------------------------------------------------------------------------
(* tryExtractValidJson on its own, App.vue:157-199 *)

\* texts with spans of several lengths that decode, that decode after repair
\* and that do not decode
MaxExtractLen == 4
ExtractAlphabet == {"[", "]", "{", "}", "1", ","}
ExtractPayloads ==
  { <<"[", "1", ",", " ", "x", "]", " ", "[", "1", "]">>,     \* [1, x] [1]
    <<"o", "k", ":", " ", "[", "1", ",", "[", "1", "]">>,     \* ok: [1,[1]
    <<"[", "x", "]", "{", "x", "}", "[", "]", "x">>,          \* [x]{x}[]x
    <<"{", "x", "]", "[", "1", "]", "x", "}">> }              \* {x][1]x}
InitExtract ==
  /\ parseIn \in [s : StringsUpTo(ExtractAlphabet, MaxExtractLen) \cup ExtractPayloads,
                  fence : {"none"}, engine : {"other"}]
  /\ callStack = <<[Frame(parseIn.s, TRUE) EXCEPT !.pc = "extract", !.cleanStr = parseIn.s,
                                                  !.idx = 1]>>
  /\ parseOut = Running
  /\ IdleMain /\ IdleRepair /\ IdleOutline
SpecExtract == InitExtract /\ [][TryExtractStep]_vars

\* the spans of the text from an opener to a later closer
Spans(str) ==
  {span \in [s : 1..Len(str), e : 1..Len(str)] :
     span.s < span.e /\ str[span.s] \in {"{", "["} /\ str[span.e] \in {"}", "]"}}
\* C33: tryExtractValidJson returns the decode of the longest span, from a
\* '{' or '[' to a later '}' or ']', that decodes as it is or after repair;
\* when no span decodes it throws an error and returns no value
C33_LongestSpanDecoded ==
  [][(callStack # <<>> /\ Top.pc = "extract" /\ callStack' = <<>>) =>
       IF parseOut'.kind = "return"
       THEN \E span \in Spans(Top.cleanStr) :
              /\ TryCandidate(Top.cleanStr, span).ok
              /\ parseOut'.v = TryCandidate(Top.cleanStr, span).v
              /\ \A longer \in Spans(Top.cleanStr) :
                   longer.e - longer.s > span.e - span.s
                     => ~TryCandidate(Top.cleanStr, longer).ok
       ELSE /\ parseOut'.kind = "throw"
            /\ \A span \in Spans(Top.cleanStr) : ~TryCandidate(Top.cleanStr, span).ok]_vars
\* of the text [1, x] [1] the two longer spans do not decode and the value
\* of the shortest is returned
C33_Witness ==
  /\ callStack = <<>>
  /\ parseIn.s = <<"[", "1", ",", " ", "x", "]", " ", "[", "1", "]">>
  /\ parseOut = Returned(JSONparse(<<"[", "1", "]">>).v)

-----------------------------------------------------------------------------
(* The output of repairTruncatedJson, App.vue:246-335 *)

\* texts of brackets, quotes, backslashes and a letter
MaxBalanceLen == 4
BalanceAlphabet == {"[", "]", "{", "}", Quote, BackSlash, "a"}
InitBalance ==
  /\ rep \in {<<x>> : x \in StringsUpTo(BalanceAlphabet, MaxBalanceLen)}
  /\ IdleMain /\ IdleParse /\ IdleOutline
SpecBalance == InitBalance /\ [][NextRepair]_vars

\* the brackets of the text outside its strings: open holds the openers that
\* are not closed yet, the last one on top; every closer must close the top
\* one, and at the end none is left
RECURSIVE BracketsBalanced(_, _, _, _, _)
BracketsBalanced(s, i, open, inString, escaped) ==
  IF i > Len(s) THEN Len(open) = 0
  ELSE IF s[i] = BackSlash /\ ~escaped THEN BracketsBalanced(s, i + 1, open, inString, TRUE)
  ELSE IF s[i] = Quote /\ ~escaped THEN BracketsBalanced(s, i + 1, open, ~inString, FALSE)
  ELSE IF inString THEN BracketsBalanced(s, i + 1, open, inString, FALSE)
  ELSE IF s[i] \in {"{", "["}
  THEN BracketsBalanced(s, i + 1, Append(open, s[i]), inString, FALSE)
  ELSE IF s[i] \in {"}", "]"}
  THEN /\ Len(open) > 0
       /\ open[Len(open)] = (IF s[i] = "}" THEN "{" ELSE "[")
       /\ BracketsBalanced(s, i + 1, SubSeq(open, 1, Len(open) - 1), inString, FALSE)
  ELSE BracketsBalanced(s, i + 1, open, inString, FALSE)
\* C34: for every input the output of repairTruncatedJson has no
\* unterminated string and its brackets outside strings are balanced: every
\* closer matches the most recent opener that is not closed, and every
\* opener is closed, the brackets inside strings not counted
C34_OutputBalanced ==
  Len(rep) >= 2 =>
    /\ ~ScanInString(rep[2], 1, FALSE, FALSE)
    /\ BracketsBalanced(rep[2], 1, <<>>, FALSE, FALSE)

-----------------------------------------------------------------------------
(* The operations with every request answered and every stream ended *)

\* every request is answered or rejected, and every stream ends or fails
NetworkResolves ==
  /\ WF_vars(OutlineRequestFailed \/ OutlineResponse)
  /\ WF_vars(OutlineReadError \/ OutlineDone)
  /\ WF_vars(ActionRequestFailed \/ ActionResponse)
  /\ WF_vars(ActionReadError \/ ActionDone)
  /\ WF_vars(SendMessageRejected \/ SendMessageResponse)
  /\ WF_vars(SendMessageAborted \/ SendMessageDone)
\* the streams carry one record at most, a body of prose
EndRecords == {InContent(ProseB)}
NextEnds ==
  \/ FetchDeliverableInfoFrom(OpsOutlines)
  \/ generateOutline
  \/ ConfirmCancel
  \/ ConfirmOk
  \/ OutlineRequestFailed
  \/ OutlineResponse
  \/ OutlineRecord(EndRecords, MaxOpsRecords)
  \/ OutlineReadError
  \/ OutlineDone
  \/ handleAction
  \/ ActionRequestFailed
  \/ ActionResponse
  \/ ActionRecord(EndRecords, MaxOpsRecords)
  \/ ActionReadError
  \/ ActionDone
  \/ SendMessageOp
  \/ SendMessageRejected
  \/ SendMessageResponse
  \/ SendMessageRecord(EndRecords, MaxOpsRecords)
  \/ SendMessageDone
  \/ SendMessageAborted
SpecOpsLive == InitDoc /\ [][NextEnds]_vars /\ NetworkResolves

\* C36: when every network call eventually resolves or rejects and every
\* stream eventually ends, each started operation (outline generation,
\* draft, polish, chat send) eventually sets isGenerating back to false, on
\* success and on every failure path, so that a later operation can start
C36_OperationsEnd ==
  /\ InProgress(generation.pc) ~> (generation.pc = "idle" /\ ~isGenerating)
  /\ InProgress(handling.pc) ~> (handling.pc = "idle" /\ ~isGenerating)
  /\ InProgress(chat.pc) ~> (chat.pc = "idle" /\ ~isGenerating)
  /\ []<>(~isGenerating)
\* a chat message whose stream failed and a draft or polish have both ended,
\* one started after the other had ended, and the flag is false
C36_Witness ==
  /\ ~isGenerating
  /\ chat.sent = 1 /\ chat.pc = "idle" /\ ~chat.msg.isFinished
  /\ handling.started = 1 /\ handling.pc = "idle"
  /\ generation.started = 0
-----------------------------------------------------------------------------
(* Claims about the knowledge-base files, ProjectDetail.vue *)

\* the page opens on a project that has the parsed file f0
InitKB ==
  /\ documentData = <<>> /\ activeSectionId = Null /\ isGenerating = FALSE
  /\ now = 0 /\ chat = ChatIdle /\ writingSectionId = Null
  /\ generation = GenerationIdle /\ handling = HandlingIdle /\ offsetHeight = 0
  /\ pageCount = 1 /\ extraction = ExtractionIdle /\ reader = ReaderIdle
  /\ IdleRepair /\ IdleParse /\ IdleOutline
  /\ kb \in {[KbIdle EXCEPT !.names = names, !.server["f0"] = "done", !.kb_files = {"f0"}] :
               names \in FileNames}
NextKB ==
  \/ fetchProjectDetail
  \/ PollTick
  \/ handleFileUpload
  \/ ServerParse
  \/ DatabaseInfo
  \/ DatabaseInfoFailed
  \/ FileLinked
  \/ LinkFailed
  \/ ExtractionReturned
  \/ onBeforeUnmount
SpecKB == InitKB /\ [][NextKB]_vars

\* C37: for each file of the knowledge base processDeliverableExtraction is
\* called with retryCount 0 at most once while the page is open, however the
\* fetchKBFiles calls of the timer and of the uploads overlap, and never for
\* a file that was already parsed when the page loaded its files first
C37_ExtractionAtMostOnce ==
  /\ \A id \in {"f0", "f1", "f2"} : kb.started[id] <= 1
  /\ kb.started["f0"] = 0

\* the file the server made of an upload
fileOfPath(path) == CHOOSE id \in {"f0", "f1", "f2"} : pathOf(id) = path
\* the pending uploads as a set
pendingSet(k) == {k.pendingUploads[n] : n \in 1..Len(k.pendingUploads)}

\* C38: an entry leaves pendingUploads only when the file of that very entry
\* was found in the knowledge base and linked to the project, however the
\* fetchKBFiles calls suspended at linkFile overlap: no other entry is
\* removed, none is lost unlinked
C38_RemovedOnlyWhenLinked ==
  [][\A entry \in pendingSet(kb) \ pendingSet(kb') :
       fileOfPath(entry.path) \in kb'.kb_files]_vars

\* C39: once the page is unmounted no polling timer is active, also when a
\* fetchKBFiles call that was in flight completes later and finds files
\* that are not finished
C39_NoTimerAfterUnmount == ~kb.mounted => ~kb.pollingTimer

====
